---------------------------- MODULE Spec2Model ----------------------------
(***************************************************************************)
(* Release tooling of opentelemetry-go (internal/tools): the versioning    *)
(* manifest (versions.yaml), the module maps built from it and from the    *)
(* go.mod files of the repository, and the `verify` command that checks    *)
(* them (verifyAllModulesInSet, verifyVersions, verifyDependencies).       *)
(*                                                                         *)
(* Go strings that the code takes apart (version strings) are sequences of *)
(* one-character strings; strings that are only compared (module paths,    *)
(* set names) are TLA+ strings.  A Go map is a function; ranging over it   *)
(* visits its keys in an order the runtime chooses, so every loop over a   *)
(* map is one action per iteration that picks any key not yet visited.     *)
(***************************************************************************)
EXTENDS Integers, Sequences, FiniteSets, TLC

VARIABLES
    versionCfg,        \* the versioning file as viper decodes it (versionConfig)
    fsys,              \* the go.mod files below the repository root
    pc,                \* position of the command that is running
    modSetMap,         \* ModuleSetMap held by the command
    modInfoMap,        \* ModuleInfoMap (modMap while BuildModuleMap builds it)
    modPathMap,        \* ModulePathMap (while and after BuildModulePathMap)
    visited,           \* keys the current range loop has already yielded
    setMajorVersions,  \* verifyVersions: major version -> name of the set seen with it
    err,               \* the error value returned by the call that failed
    fatal,             \* prefix of the log.Fatalf message, "" while none
    out,               \* lines printed so far
    tagCfg,            \* the flags of the tag command or of the prerelease command
    gitTags,           \* the tags of the git repository: tag -> commit it points at
    gitLog,            \* the commands run so far, each with its outcome
    frame              \* locals of the function that is running

\* the state the tag tooling adds to that of the verify command
tagVars == <<tagCfg, gitTags, gitLog, frame>>

vars == <<versionCfg, fsys, pc, modSetMap, modInfoMap, modPathMap, visited,
          setMajorVersions, err, fatal, out, tagCfg, gitTags, gitLog, frame>>

-----------------------------------------------------------------------------
(* Bounds of the model *)

\* number of module sets handed to verifyVersions when it is checked alone
NumVersionSets == 3
\* longest module list of one module set
MaxModules == 2
\* largest number of require directives in one go.mod file
MaxRequire == 1

-----------------------------------------------------------------------------
(* Small helpers for Go maps and slices *)

EmptyMap == [k \in {} |-> k]

Put(m, k, v) == [x \in (DOMAIN m) \cup {k} |-> IF x = k THEN v ELSE m[x]]

Range(s) == {s[i] : i \in DOMAIN s}

\* the suffix s[i:] of a Go string or slice, i counted from 1
Rest(s, i) == SubSeq(s, i, Len(s))

-----------------------------------------------------------------------------
(* golang.org/x/mod/semver, as verifyVersions and IsStableVersion use it:  *)
(* IsValid, Major and Compare over version strings.                        *)

Digits == <<"0", "1", "2", "3", "4", "5", "6", "7", "8", "9">>

\* the characters of identifiers in byte order: '-' < digits < upper < lower
IdentChars ==
    <<"-">> \o Digits \o
    <<"A", "B", "C", "D", "E", "F", "G", "H", "I", "J", "K", "L", "M",
      "N", "O", "P", "Q", "R", "S", "T", "U", "V", "W", "X", "Y", "Z">> \o
    <<"a", "b", "c", "d", "e", "f", "g", "h", "i", "j", "k", "l", "m",
      "n", "o", "p", "q", "r", "s", "t", "u", "v", "w", "x", "y", "z">>

IsDigit(c) == c \in Range(Digits)

isIdentChar(c) == c \in Range(IdentChars)

\* position of an identifier character in byte order
ByteOrder(c) == CHOOSE i \in DOMAIN IdentChars : IdentChars[i] = c

\* x < y for Go strings of identifier characters
RECURSIVE StringLess(_, _)
StringLess(x, y) ==
    IF y = <<>> THEN FALSE
    ELSE IF x = <<>> THEN TRUE
    ELSE IF x[1] # y[1] THEN ByteOrder(x[1]) < ByteOrder(y[1])
    ELSE StringLess(Tail(x), Tail(y))

\* number of digits v starts with
RECURSIVE LeadingDigits(_)
LeadingDigits(v) ==
    IF v = <<>> \/ ~IsDigit(Head(v)) THEN 0 ELSE 1 + LeadingDigits(Tail(v))

NotParsed == [ok |-> FALSE, t |-> <<>>, rest |-> <<>>]

parseIntAt(v, i) ==
    IF v[1] = "0" /\ i # 1 THEN NotParsed
    ELSE [ok |-> TRUE, t |-> SubSeq(v, 1, i), rest |-> Rest(v, i + 1)]

parseInt(v) ==
    IF v = <<>> \/ ~IsDigit(v[1]) THEN NotParsed
    ELSE parseIntAt(v, LeadingDigits(v))

isBadNumAt(v, i) == i = Len(v) /\ i > 1 /\ v[1] = "0"

isBadNum(v) == isBadNumAt(v, LeadingDigits(v))

isNum(v) == LeadingDigits(v) = Len(v)

\* the loop of parsePrerelease: i is the cursor, start the first character of
\* the identifier under it; 0 when the string is rejected, else the cursor at
\* which the loop ends
RECURSIVE prereleaseScan(_, _, _)
prereleaseScan(v, i, start) ==
    IF i <= Len(v) /\ v[i] # "+"
    THEN IF ~isIdentChar(v[i]) /\ v[i] # "." THEN 0
         ELSE IF v[i] = "."
              THEN IF start = i \/ isBadNum(SubSeq(v, start, i - 1)) THEN 0
                   ELSE prereleaseScan(v, i + 1, i + 1)
              ELSE prereleaseScan(v, i + 1, start)
    ELSE IF start = i \/ isBadNum(SubSeq(v, start, i - 1)) THEN 0 ELSE i

\* the loop of parseBuild
RECURSIVE buildScan(_, _, _)
buildScan(v, i, start) ==
    IF i <= Len(v)
    THEN IF ~isIdentChar(v[i]) /\ v[i] # "." THEN 0
         ELSE IF v[i] = "."
              THEN IF start = i THEN 0 ELSE buildScan(v, i + 1, i + 1)
              ELSE buildScan(v, i + 1, start)
    ELSE IF start = i THEN 0 ELSE i

\* what a scan that ended at cursor i returns: v[:i], v[i:], true
scanned(v, i) ==
    IF i = 0 THEN NotParsed
    ELSE [ok |-> TRUE, t |-> SubSeq(v, 1, i - 1), rest |-> Rest(v, i)]

parsePrerelease(v) ==
    IF v = <<>> \/ v[1] # "-" THEN NotParsed
    ELSE scanned(v, prereleaseScan(v, 2, 2))

parseBuild(v) ==
    IF v = <<>> \/ v[1] # "+" THEN NotParsed
    ELSE scanned(v, buildScan(v, 2, 2))

BadVersion ==
    [ok |-> FALSE, major |-> <<>>, minor |-> <<>>, patch |-> <<>>,
     prerelease |-> <<>>, build |-> <<>>]

Parsed(major, minor, patch, prerelease, build) ==
    [ok |-> TRUE, major |-> major, minor |-> minor, patch |-> patch,
     prerelease |-> prerelease, build |-> build]

\* nothing was to be parsed at the head of v
Skipped(v) == [ok |-> TRUE, t |-> <<>>, rest |-> v]

\* parse, after the pre-release: [+build] and the end of the string
parseAfterPrerelease(major, minor, patch, pre, build) ==
    IF ~build.ok THEN BadVersion
    ELSE IF build.rest # <<>> THEN BadVersion
    ELSE Parsed(major.t, minor.t, patch.t, pre.t, build.t)

\* parse, after the patch number: [-prerelease]
parseAfterPatch(major, minor, patch, pre) ==
    IF ~pre.ok THEN BadVersion
    ELSE parseAfterPrerelease(
             major, minor, patch, pre,
             IF pre.rest # <<>> /\ pre.rest[1] = "+" THEN parseBuild(pre.rest)
             ELSE Skipped(pre.rest))

\* parse, after the minor number: .PATCH
parseAfterMinor(major, minor, patch) ==
    IF ~patch.ok THEN BadVersion
    ELSE parseAfterPatch(
             major, minor, patch,
             IF patch.rest # <<>> /\ patch.rest[1] = "-"
             THEN parsePrerelease(patch.rest)
             ELSE Skipped(patch.rest))

\* parse, after the major number: [.MINOR
parseAfterMajor(major, minor) ==
    IF ~minor.ok THEN BadVersion
    ELSE IF minor.rest = <<>>
    THEN Parsed(major.t, minor.t, <<"0">>, <<>>, <<>>)
    ELSE IF minor.rest[1] # "." THEN BadVersion
    ELSE parseAfterMinor(major, minor, parseInt(Tail(minor.rest)))

\* parse, after the "v": MAJOR
parseAfterV(major) ==
    IF ~major.ok THEN BadVersion
    ELSE IF major.rest = <<>>
    THEN Parsed(major.t, <<"0">>, <<"0">>, <<>>, <<>>)
    ELSE IF major.rest[1] # "." THEN BadVersion
    ELSE parseAfterMajor(major, parseInt(Tail(major.rest)))

\* vMAJOR[.MINOR[.PATCH[-PRERELEASE][+BUILD]]]
parse(v) ==
    IF v = <<>> \/ v[1] # "v" THEN BadVersion
    ELSE parseAfterV(parseInt(Tail(v)))

semverIsValid(v) == parse(v).ok

majorOf(v, pv) == IF ~pv.ok THEN <<>> ELSE SubSeq(v, 1, 1 + Len(pv.major))

\* Major returns the major version prefix, "v1" of "v1.2.3"; "" if invalid
semverMajor(v) == majorOf(v, parse(v))

compareInt(x, y) ==
    IF x = y THEN 0
    ELSE IF Len(x) < Len(y) THEN -1
    ELSE IF Len(x) > Len(y) THEN 1
    ELSE IF StringLess(x, y) THEN -1 ELSE 1

\* length of the identifier x starts with (up to the next '.')
RECURSIVE identLen(_)
identLen(x) == IF x = <<>> \/ Head(x) = "." THEN 0 ELSE 1 + identLen(Tail(x))

\* nextIdent: the identifier x starts with
nextIdent(x) == SubSeq(x, 1, identLen(x))

\* the comparison of two identifiers that differ
compareIdent(dx, dy, ix, iy) ==
    IF ix # iy THEN (IF ix THEN -1 ELSE 1)
    ELSE IF ix /\ Len(dx) < Len(dy) THEN -1
    ELSE IF ix /\ Len(dx) > Len(dy) THEN 1
    ELSE IF StringLess(dx, dy) THEN -1 ELSE 1

RECURSIVE comparePrereleaseLoop(_, _)
comparePrereleaseFrom(x, y, dx, dy) ==
    IF dx # dy THEN compareIdent(dx, dy, isNum(dx), isNum(dy))
    ELSE comparePrereleaseLoop(Rest(x, Len(dx) + 1), Rest(y, Len(dy) + 1))

\* the loop of comparePrerelease; x and y start with '-' or '.'
comparePrereleaseLoop(x, y) ==
    IF x # <<>> /\ y # <<>>
    THEN comparePrereleaseFrom(Tail(x), Tail(y),
                               nextIdent(Tail(x)), nextIdent(Tail(y)))
    ELSE IF x = <<>> THEN -1 ELSE 1

comparePrerelease(x, y) ==
    IF x = y THEN 0
    ELSE IF x = <<>> THEN 1
    ELSE IF y = <<>> THEN -1
    ELSE comparePrereleaseLoop(x, y)

\* the first of the four comparisons that is not 0
firstDifference(major, minor, patch, prerelease) ==
    IF major # 0 THEN major
    ELSE IF minor # 0 THEN minor
    ELSE IF patch # 0 THEN patch
    ELSE prerelease

compareParsed(pv, pw) ==
    IF ~pv.ok /\ ~pw.ok THEN 0
    ELSE IF ~pv.ok THEN -1
    ELSE IF ~pw.ok THEN 1
    ELSE firstDifference(compareInt(pv.major, pw.major),
                         compareInt(pv.minor, pw.minor),
                         compareInt(pv.patch, pw.patch),
                         comparePrerelease(pv.prerelease, pw.prerelease))

semverCompare(v, w) == compareParsed(parse(v), parse(w))

\* isStableVersion: the major version is v1 or greater
\* a variant that takes "stable" to mean a major version above v1
IsStableVersionAboveV1(v) == semverCompare(semverMajor(v), <<"v", "1">>) > 0

IsStableVersion(v) == semverCompare(semverMajor(v), <<"v", "1">>) >= 0

-----------------------------------------------------------------------------
(* The values the inputs are drawn from *)

\* module import paths (ModulePath); the tools only compare them
ModulePaths == {"otel/api", "otel/sdk", "otel/exp"}

\* a dependency that no versioning file governs
ExternalPath == "github.com/stretchr/testify"

\* the module whose go.mod file is at the root of the repository
RootModule == "otel"

\* names of module sets, in the order sets are added to a generated manifest
SetNameList == <<"stable-core", "exp", "contrib", "bridge">>

\* the module sets of the generated versioning files
ConfigSetNames == {"stable-core", "exp"}

V3(major, minor, patch) == <<"v", major, ".", minor, ".", patch>>

\* version strings: stable, unstable, same and different major versions, a
\* two-digit major, the short form vMAJOR, a pre-release, and strings that are
\* not semantic versions (no "v", leading zero)
VersionStrings ==
    { V3("1", "2", "0"), V3("1", "5", "0"), V3("2", "0", "0"),
      V3("0", "3", "0"), V3("0", "9", "0"),
      <<"v", "1">>, <<"v", "1", "0", ".", "0", ".", "0">>,
      <<"v", "1", ".", "0", ".", "0", "-", "r", "c", ".", "1">>,
      <<"1", ".", "2">>, <<"v", "0", "1", ".", "2", ".", "0">> }

\* the versions of the generated versioning files
ConfigVersions == { V3("1", "2", "0"), V3("0", "9", "0"), <<"1", ".", "2">> }

\* all slices over S of length at most n
SeqsUpTo(S, n) == UNION {[1..k -> S] : k \in 0..n}

\* a module set as viper decodes it
ModuleSetValues(versions, lists) ==
    {[Version |-> v, Modules |-> l] : v \in versions, l \in lists}

\* ModuleSetMap values over the given set names
ModuleSetMaps(names, versions, lists) ==
    UNION {[d -> ModuleSetValues(versions, lists)] : d \in SUBSET names}

\* one slice per subset of S (the order of excluded-modules does not matter:
\* getExcludedModules turns the slice into a set)
RECURSIVE SetToSeq(_)
SetToSeq(S) ==
    IF S = {} THEN <<>>
    ELSE LET x == CHOOSE y \in S : TRUE IN <<x>> \o SetToSeq(S \ {x})

\* versioning files that viper reads and decodes
VersionConfigs(names, versions, lists, paths) ==
    {[ok |-> TRUE, ModuleSets |-> ms, ExcludedModules |-> SetToSeq(ex)] :
        ms \in ModuleSetMaps(names, versions, lists), ex \in SUBSET paths}

\* a versioning file that is missing or does not decode
UnreadableConfig ==
    [ok |-> FALSE, ModuleSets |-> EmptyMap, ExcludedModules |-> <<>>]

\* the go.mod files below the repository root, in the lexical order in which
\* filepath.Walk reaches them
WalkOrder ==
    <<"/repo/api/go.mod", "/repo/exp/go.mod", "/repo/go.mod", "/repo/sdk/go.mod">>

GoModPaths == Range(WalkOrder)

\* the zero ModuleFilePath, which a lookup of a missing key yields
NoPath == ""

\* the go.mod file that declares a module, in a repository with one go.mod
\* file per module
GoModOf(modPath) ==
    CASE modPath = "otel/api" -> "/repo/api/go.mod"
      [] modPath = "otel/exp" -> "/repo/exp/go.mod"
      [] modPath = "otel/sdk" -> "/repo/sdk/go.mod"
      [] modPath = RootModule -> "/repo/go.mod"

\* module paths a require directive may name
RequirePaths == ModulePaths \cup {ExternalPath}

\* the require directives of a go.mod file: at most MaxRequire of them, listed
\* in one fixed order
RequireLists(paths) ==
    {SetToSeq(d) : d \in {e \in SUBSET paths : Cardinality(e) <= MaxRequire}}

NoFile == [kind |-> "none", module |-> "", require |-> <<>>, parses |-> FALSE]

\* a go.mod file that exists and cannot be read
UnreadableFile ==
    [kind |-> "unreadable", module |-> "", require |-> <<>>, parses |-> FALSE]

\* a go.mod file for which filepath.Walk hands its function an error
WalkErrorFile ==
    [kind |-> "walkerr", module |-> "", require |-> <<>>, parses |-> FALSE]

\* the go.mod files that declare module m: well-formed ones with their require
\* directives, and one whose module line is fine and whose rest does not parse
GoModFiles(m, paths) ==
    {[kind |-> "file", module |-> m, require |-> r, parses |-> TRUE] :
        r \in RequireLists(paths \ {m})}
    \cup {[kind |-> "file", module |-> m, require |-> <<>>, parses |-> FALSE]}

-----------------------------------------------------------------------------
(* Errors and printed lines *)

NoError == [kind |-> "nil"]

\* a nil map
NilMap == EmptyMap

\* no function of the tag tooling is running
NoFrame == [fn |-> "none"]

\* the tag command is not running: no config, no repository in use
NoTagConfig == [ModuleSet |-> "", CommitHash |-> "", DeleteModuleSetTags |-> FALSE]

TagIdle ==
    /\ tagCfg = NoTagConfig
    /\ gitTags = EmptyMap
    /\ gitLog = <<>>
    /\ frame = NoFrame

-----------------------------------------------------------------------------
(* tools: readVersioningFile, BuildModuleSetsMap, getExcludedModules,      *)
(* BuildModuleMap                                                          *)

readVersioningFile(cfg) ==
    IF cfg.ok THEN [err |-> NoError, versionCfg |-> cfg]
    ELSE [err |-> [kind |-> "ReadConfig"], versionCfg |-> UnreadableConfig]

BuildModuleSetsMap(cfg) ==
    LET r == readVersioningFile(cfg) IN
    IF r.err.kind # "nil"
    THEN [err |-> [kind |-> "BuildModuleSetsMap"], modSetMap |-> NilMap]
    ELSE [err |-> NoError, modSetMap |-> r.versionCfg.ModuleSets]

\* a variant that never fills the set it returns
getExcludedModulesEmpty(cfg) ==
    LET r == readVersioningFile(cfg) IN
    IF r.err.kind # "nil"
    THEN [err |-> [kind |-> "GetExcludedModules"], excludedModules |-> {}]
    ELSE [err |-> NoError, excludedModules |-> {}]

getExcludedModules(cfg) ==
    LET r == readVersioningFile(cfg) IN
    IF r.err.kind # "nil"
    THEN [err |-> [kind |-> "GetExcludedModules"], excludedModules |-> {}]
    ELSE [err |-> NoError,
          excludedModules |-> Range(r.versionCfg.ExcludedModules)]

\* a variant whose message names the set being visited twice
DuplicateModuleErrorSameSet(modMap, modPath, setName) ==
    [kind |-> "DuplicateModule", modPath |-> modPath,
     first |-> setName, second |-> setName]

\* what BuildModuleMap does with the module at index i of a set's list, when
\* modMap already holds modPath: the duplicate error names the set recorded
\* first and the set being visited
DuplicateModuleError(modMap, modPath, setName) ==
    [kind |-> "DuplicateModule", modPath |-> modPath,
     first |-> modMap[modPath].ModuleSetName, second |-> setName]

\* the message is built from err, which is nil here, not from modPath
ExcludedModuleError(modPath) == [kind |-> "ExcludedModule", arg |-> "<nil>"]

\* a variant that leaves the Version field at its zero value
NewModuleInfoNoVersion(setName, moduleSet) ==
    [ModuleSetName |-> setName, Version |-> <<>>]

NewModuleInfo(setName, moduleSet) ==
    [ModuleSetName |-> setName, Version |-> moduleSet.Version]

\* the inner loop of BuildModuleMap: moduleSet.Modules from index i on
RECURSIVE BuildModuleMapModules(_, _, _, _, _)
BuildModuleMapModules(cfg, modMap, setName, moduleSet, i) ==
    IF i > Len(moduleSet.Modules) THEN [err |-> NoError, modMap |-> modMap]
    ELSE LET modPath  == moduleSet.Modules[i]
             excluded == getExcludedModules(cfg)
         IN  IF modPath \in DOMAIN modMap
             THEN [err |-> DuplicateModuleError(modMap, modPath, setName),
                   modMap |-> NilMap]
             ELSE IF excluded.err.kind # "nil"
             THEN [err |-> excluded.err, modMap |-> NilMap]
             ELSE IF modPath \in excluded.excludedModules
             THEN [err |-> ExcludedModuleError(modPath), modMap |-> NilMap]
             ELSE BuildModuleMapModules(
                      cfg, Put(modMap, modPath, NewModuleInfo(setName, moduleSet)),
                      setName, moduleSet, i + 1)

\* the command stops: log.Fatalf(prefix, e)
Fatal(prefix, e) ==
    /\ pc' = "fatal"
    /\ fatal' = prefix
    /\ err' = e

\* BuildModuleMap starts: it reads the versioning file itself
BuildModuleMapEnter ==
    /\ pc = "BuildModuleMap"
    /\ LET r == BuildModuleSetsMap(versionCfg) IN
       IF r.err.kind # "nil"
       THEN /\ Fatal("unable to build module info map", r.err)
            /\ modInfoMap' = EmptyMap
            /\ visited' = {}
       ELSE /\ pc' = "BuildModuleMap.range"
            /\ modInfoMap' = EmptyMap
            /\ visited' = {}
            /\ UNCHANGED <<fatal, err>>
    /\ UNCHANGED <<versionCfg, fsys, modSetMap, modPathMap,
                   setMajorVersions, out>>
    /\ UNCHANGED tagVars

\* one iteration of `for setName, moduleSet := range modSetMap`
BuildModuleMapIter ==
    /\ pc = "BuildModuleMap.range"
    /\ \E setName \in (DOMAIN versionCfg.ModuleSets) \ visited :
         LET r == BuildModuleMapModules(versionCfg, modInfoMap, setName,
                                        versionCfg.ModuleSets[setName], 1)
         IN  IF r.err.kind # "nil"
             THEN /\ Fatal("unable to build module info map", r.err)
                  /\ modInfoMap' = r.modMap
                  /\ visited' = {}
             ELSE /\ modInfoMap' = r.modMap
                  /\ visited' = visited \cup {setName}
                  /\ UNCHANGED <<pc, fatal, err>>
    /\ UNCHANGED <<versionCfg, fsys, modSetMap, modPathMap,
                   setMajorVersions, out>>
    /\ UNCHANGED tagVars

\* the range is exhausted: return modMap, nil
BuildModuleMapReturn ==
    /\ pc = "BuildModuleMap.range"
    /\ visited = DOMAIN versionCfg.ModuleSets
    /\ pc' = "BuildModulePathMap"
    /\ visited' = {}
    /\ UNCHANGED <<versionCfg, fsys, modSetMap, modInfoMap, modPathMap,
                   setMajorVersions, err, fatal, out>>
    /\ UNCHANGED tagVars

\* BuildModuleMap on any versioning file
InitBuild ==
    /\ versionCfg \in
         VersionConfigs(ConfigSetNames, ConfigVersions,
                        SeqsUpTo(ModulePaths, MaxModules), ModulePaths)
           \cup {UnreadableConfig}
    /\ fsys = [p \in GoModPaths |-> NoFile]
    /\ pc = "BuildModuleMap"
    /\ modSetMap = EmptyMap
    /\ modInfoMap = EmptyMap
    /\ modPathMap = EmptyMap
    /\ visited = {}
    /\ setMajorVersions = EmptyMap
    /\ err = NoError
    /\ fatal = ""
    /\ out = <<>>
    /\ TagIdle

NextBuild ==
    \/ BuildModuleMapEnter
    \/ BuildModuleMapIter
    \/ BuildModuleMapReturn

SpecBuild == InitBuild /\ [][NextBuild]_vars

-----------------------------------------------------------------------------
(* tools.BuildModulePathMap: the walk over the repository *)

\* ioutil.ReadFile: the content, or an error and no content
ReadFile(tree, path) ==
    IF path \in DOMAIN tree /\ tree[path].kind = "file"
    THEN [err |-> NoError, data |-> tree[path]]
    ELSE [err |-> [kind |-> "ReadFile", path |-> path],
          data |-> [kind |-> "file", module |-> "", require |-> <<>>,
                    parses |-> TRUE]]

\* modfile.ModulePath: the path of the module directive, read leniently
modfileModulePath(data) == data.module

\* modfile.Parse: the whole file has to parse
modfileParse(data) ==
    IF data.parses THEN [err |-> NoError, Require |-> data.require]
    ELSE [err |-> [kind |-> "Parse"], Require |-> <<>>]

\* the line findGoMod prints when filepath.Walk hands it an error
WalkWarning(filePath) ==
    [line |-> "Warning: file could not be read during filepath.Walk()",
     path |-> filePath]

\* the result of a walk whose function has printed a warning for filePath and
\* gone on to the result rest
WarnedAt(filePath, rest) ==
    [rest EXCEPT !.warnings = <<WalkWarning(filePath)>> \o @]

\* a variant of findGoMod that records excluded modules like any other
RECURSIVE WalkFromKeepExcluded(_, _, _, _)
WalkFromKeepExcluded(cfg, tree, pathMap, i) ==
    IF i > Len(WalkOrder)
    THEN [err |-> NoError, modPathMap |-> pathMap, warnings |-> <<>>]
    ELSE LET filePath == WalkOrder[i] IN
         IF tree[filePath].kind = "none"
         THEN WalkFromKeepExcluded(cfg, tree, pathMap, i + 1)
         ELSE IF tree[filePath].kind = "walkerr"
         THEN WarnedAt(filePath, WalkFromKeepExcluded(cfg, tree, pathMap, i + 1))
         ELSE LET mod      == ReadFile(tree, filePath)
                  modPath  == modfileModulePath(mod.data)
                  excluded == getExcludedModules(cfg)
              IN  IF mod.err.kind # "nil"
                  THEN [err |-> mod.err, modPathMap |-> NilMap, warnings |-> <<>>]
                  ELSE IF excluded.err.kind # "nil"
                  THEN [err |-> excluded.err, modPathMap |-> NilMap,
                        warnings |-> <<>>]
                  ELSE WalkFromKeepExcluded(cfg, tree,
                                            Put(pathMap, modPath, filePath), i + 1)

\* a variant of findGoMod that keeps the first go.mod file of a module
RECURSIVE WalkFromKeepFirst(_, _, _, _)
WalkFromKeepFirst(cfg, tree, pathMap, i) ==
    IF i > Len(WalkOrder)
    THEN [err |-> NoError, modPathMap |-> pathMap, warnings |-> <<>>]
    ELSE LET filePath == WalkOrder[i] IN
         IF tree[filePath].kind = "none"
         THEN WalkFromKeepFirst(cfg, tree, pathMap, i + 1)
         ELSE IF tree[filePath].kind = "walkerr"
         THEN WarnedAt(filePath, WalkFromKeepFirst(cfg, tree, pathMap, i + 1))
         ELSE LET mod      == ReadFile(tree, filePath)
                  modPath  == modfileModulePath(mod.data)
                  excluded == getExcludedModules(cfg)
              IN  IF mod.err.kind # "nil"
                  THEN [err |-> mod.err, modPathMap |-> NilMap, warnings |-> <<>>]
                  ELSE IF excluded.err.kind # "nil"
                  THEN [err |-> excluded.err, modPathMap |-> NilMap,
                        warnings |-> <<>>]
                  ELSE IF modPath \notin excluded.excludedModules
                          /\ modPath \notin DOMAIN pathMap
                  THEN WalkFromKeepFirst(cfg, tree,
                                         Put(pathMap, modPath, filePath), i + 1)
                  ELSE WalkFromKeepFirst(cfg, tree, pathMap, i + 1)

\* findGoMod on the files from position i of the walk on; an error it returns
\* ends the walk
RECURSIVE WalkFrom(_, _, _, _)
WalkFrom(cfg, tree, pathMap, i) ==
    IF i > Len(WalkOrder)
    THEN [err |-> NoError, modPathMap |-> pathMap, warnings |-> <<>>]
    ELSE LET filePath == WalkOrder[i] IN
         IF tree[filePath].kind = "none"
         THEN WalkFrom(cfg, tree, pathMap, i + 1)
         ELSE IF tree[filePath].kind = "walkerr"
         THEN WarnedAt(filePath, WalkFrom(cfg, tree, pathMap, i + 1))
         ELSE LET mod      == ReadFile(tree, filePath)
                  modPath  == modfileModulePath(mod.data)
                  excluded == getExcludedModules(cfg)
              IN  IF mod.err.kind # "nil"
                  THEN [err |-> mod.err, modPathMap |-> NilMap, warnings |-> <<>>]
                  ELSE IF excluded.err.kind # "nil"
                  THEN [err |-> excluded.err, modPathMap |-> NilMap,
                        warnings |-> <<>>]
                  ELSE IF modPath \notin excluded.excludedModules
                  THEN WalkFrom(cfg, tree, Put(pathMap, modPath, filePath), i + 1)
                  ELSE WalkFrom(cfg, tree, pathMap, i + 1)

BuildModulePathMap(cfg, tree) == WalkFrom(cfg, tree, EmptyMap, 1)

-----------------------------------------------------------------------------
(* cmd: verifyAllModulesInSet, verifyVersions, verifyDependencies *)

PassAllModules == [line |-> "PASS: All modules exist in exactly one set."]

PassVersions ==
    [line |-> "PASS: All module versions are valid, and no module sets have same non-zero major version."]

FinishedDependencies ==
    [line |-> "Finished checking all stable modules' dependencies."]

PassVerify == [line |-> "PASS: Module sets successfully verified."]

\* first loop of verifyAllModulesInSet, one key of modPathMap
CheckModuleInSet(pathMap, infoMap, modPath) ==
    IF modPath \notin DOMAIN infoMap
    THEN [kind |-> "NotInAnySet", modPath |-> modPath,
          modFilePath |-> pathMap[modPath]]
    ELSE NoError

\* a variant without the second loop: nothing is looked up in modPathMap
CheckModuleInRepoSkipped(pathMap, infoMap, modPath) == NoError

\* second loop of verifyAllModulesInSet, one key of modInfoMap
CheckModuleInRepo(pathMap, infoMap, modPath) ==
    IF modPath \notin DOMAIN pathMap
    THEN [kind |-> "NotInRepo", modPath |-> modPath,
          setName |-> infoMap[modPath].ModuleSetName]
    ELSE NoError

\* a variant without the semver.IsValid gate
CheckSetVersionNoSyntaxGate(setMap, majors, modSetName) ==
    LET modSet == setMap[modSetName] IN
    IF IsStableVersion(modSet.Version)
    THEN LET modSetVersionMajor == semverMajor(modSet.Version) IN
         IF modSetVersionMajor \in DOMAIN majors
         THEN LET prevModSetName == majors[modSetVersionMajor] IN
              [err |-> [kind |-> "MajorVersionCollision",
                        major |-> modSetVersionMajor,
                        prevSetName |-> prevModSetName,
                        prevVersion |-> setMap[prevModSetName].Version,
                        setName |-> modSetName,
                        version |-> modSet.Version],
               majors |-> majors]
         ELSE [err |-> NoError, majors |-> Put(majors, modSetVersionMajor, modSetName)]
    ELSE [err |-> NoError, majors |-> majors]

\* a variant that remembers only the major version of the last stable set
CheckSetVersionLastMajorOnly(setMap, majors, modSetName) ==
    LET modSet == setMap[modSetName] IN
    IF ~semverIsValid(modSet.Version)
    THEN [err |-> [kind |-> "InvalidVersion", setName |-> modSetName,
                   version |-> modSet.Version],
          majors |-> majors]
    ELSE IF IsStableVersion(modSet.Version)
    THEN LET modSetVersionMajor == semverMajor(modSet.Version) IN
         IF modSetVersionMajor \in DOMAIN majors
         THEN LET prevModSetName == majors[modSetVersionMajor] IN
              [err |-> [kind |-> "MajorVersionCollision",
                        major |-> modSetVersionMajor,
                        prevSetName |-> prevModSetName,
                        prevVersion |-> setMap[prevModSetName].Version,
                        setName |-> modSetName,
                        version |-> modSet.Version],
               majors |-> majors]
         ELSE [err |-> NoError,
               majors |-> Put(EmptyMap, modSetVersionMajor, modSetName)]
    ELSE [err |-> NoError, majors |-> majors]

\* body of the loop of verifyVersions for one module set
CheckSetVersion(setMap, majors, modSetName) ==
    LET modSet == setMap[modSetName] IN
    IF ~semverIsValid(modSet.Version)
    THEN [err |-> [kind |-> "InvalidVersion", setName |-> modSetName,
                   version |-> modSet.Version],
          majors |-> majors]
    ELSE IF IsStableVersion(modSet.Version)
    THEN LET modSetVersionMajor == semverMajor(modSet.Version) IN
         IF modSetVersionMajor \in DOMAIN majors
         THEN LET prevModSetName == majors[modSetVersionMajor] IN
              [err |-> [kind |-> "MajorVersionCollision",
                        major |-> modSetVersionMajor,
                        prevSetName |-> prevModSetName,
                        prevVersion |-> setMap[prevModSetName].Version,
                        setName |-> modSetName,
                        version |-> modSet.Version],
               majors |-> majors]
         ELSE [err |-> NoError, majors |-> Put(majors, modSetVersionMajor, modSetName)]
    ELSE [err |-> NoError, majors |-> majors]

Warning(modPath, modVersion, depPath, depVersion) ==
    [line |-> "WARNING: Stable module depends on unstable module",
     mod |-> modPath, modVersion |-> modVersion,
     dep |-> depPath, depVersion |-> depVersion]

\* a variant that warns about every dependency the versioning file governs,
\* stable or not
RECURSIVE DependencyWarningsAnyVersion(_, _, _, _)
DependencyWarningsAnyVersion(infoMap, modPath, requireDeps, i) ==
    IF i > Len(requireDeps) THEN <<>>
    ELSE LET dep == requireDeps[i] IN
         (IF dep \in DOMAIN infoMap
          THEN <<Warning(modPath, infoMap[modPath].Version, dep, infoMap[dep].Version)>>
          ELSE <<>>)
         \o DependencyWarningsAnyVersion(infoMap, modPath, requireDeps, i + 1)

\* the loop over requireDeps, from index i on: the warnings it prints
RECURSIVE DependencyWarnings(_, _, _, _)
DependencyWarnings(infoMap, modPath, requireDeps, i) ==
    IF i > Len(requireDeps) THEN <<>>
    ELSE LET dep == requireDeps[i] IN
         (IF dep \in DOMAIN infoMap /\ ~IsStableVersion(infoMap[dep].Version)
          THEN <<Warning(modPath, infoMap[modPath].Version, dep, infoMap[dep].Version)>>
          ELSE <<>>)
         \o DependencyWarnings(infoMap, modPath, requireDeps, i + 1)

\* a variant that returns an error when it has warned
CheckModuleDependenciesStrict(infoMap, pathMap, tree, modPath) ==
    IF IsStableVersion(infoMap[modPath].Version)
    THEN LET modFilePath == IF modPath \in DOMAIN pathMap THEN pathMap[modPath]
                            ELSE NoPath
             modData     == ReadFile(tree, modFilePath).data
             modFile     == modfileParse(modData)
         IN  IF modFile.err.kind # "nil"
             THEN [err |-> modFile.err, lines |-> <<>>]
             ELSE IF DependencyWarnings(infoMap, modPath, modFile.Require, 1) # <<>>
             THEN [err |-> [kind |-> "UnstableDependency"], lines |-> <<>>]
             ELSE [err |-> NoError, lines |-> <<>>]
    ELSE [err |-> NoError, lines |-> <<>>]

\* body of the loop of verifyDependencies for one module; the error of
\* ReadFile is overwritten by that of modfile.Parse and never looked at
CheckModuleDependencies(infoMap, pathMap, tree, modPath) ==
    IF IsStableVersion(infoMap[modPath].Version)
    THEN LET modFilePath == IF modPath \in DOMAIN pathMap THEN pathMap[modPath]
                            ELSE NoPath
             modData     == ReadFile(tree, modFilePath).data
             modFile     == modfileParse(modData)
         IN  IF modFile.err.kind # "nil"
             THEN [err |-> modFile.err, lines |-> <<>>]
             ELSE [err |-> NoError,
                   lines |-> DependencyWarnings(infoMap, modPath, modFile.Require, 1)]
    ELSE [err |-> NoError, lines |-> <<>>]

-----------------------------------------------------------------------------
(* verifyCmd.Run, step by step *)

\* tools.BuildModuleSetsMap(versioningFile)
RunBuildModuleSetsMap ==
    /\ pc = "Run"
    /\ LET r == BuildModuleSetsMap(versionCfg) IN
       IF r.err.kind # "nil"
       THEN /\ Fatal("unable to build module sets map", r.err)
            /\ modSetMap' = r.modSetMap
       ELSE /\ pc' = "BuildModuleMap"
            /\ modSetMap' = r.modSetMap
            /\ UNCHANGED <<fatal, err>>
    /\ UNCHANGED <<versionCfg, fsys, modInfoMap, modPathMap, visited,
                   setMajorVersions, out>>
    /\ UNCHANGED tagVars

\* tools.FindRepoRoot and tools.BuildModulePathMap(versioningFile, coreRepoRoot)
RunBuildModulePathMap ==
    /\ pc = "BuildModulePathMap"
    /\ LET r == BuildModulePathMap(versionCfg, fsys) IN
       IF r.err.kind # "nil"
       THEN /\ Fatal("unable to build module path map", r.err)
            /\ modPathMap' = r.modPathMap
            /\ out' = out \o r.warnings
       ELSE /\ pc' = "verifyAllModulesInSet"
            /\ modPathMap' = r.modPathMap
            /\ out' = out \o r.warnings
            /\ UNCHANGED <<fatal, err>>
    /\ visited' = {}
    /\ UNCHANGED <<versionCfg, fsys, modSetMap, modInfoMap,
                   setMajorVersions>>
    /\ UNCHANGED tagVars

\* verifyAllModulesInSet: one iteration of `range modPathMap`
VerifyAllModulesInSetPathIter ==
    /\ pc = "verifyAllModulesInSet"
    /\ \E modPath \in (DOMAIN modPathMap) \ visited :
         LET e == CheckModuleInSet(modPathMap, modInfoMap, modPath) IN
         IF e.kind # "nil"
         THEN /\ Fatal("verifyAllModulesInSet failed", e)
              /\ visited' = {}
         ELSE /\ visited' = visited \cup {modPath}
              /\ UNCHANGED <<pc, fatal, err>>
    /\ UNCHANGED <<versionCfg, fsys, modSetMap, modInfoMap, modPathMap,
                   setMajorVersions, out>>
    /\ UNCHANGED tagVars

\* the first range is exhausted, the second starts
VerifyAllModulesInSetPathDone ==
    /\ pc = "verifyAllModulesInSet"
    /\ visited = DOMAIN modPathMap
    /\ pc' = "verifyAllModulesInSet.info"
    /\ visited' = {}
    /\ UNCHANGED <<versionCfg, fsys, modSetMap, modInfoMap, modPathMap,
                   setMajorVersions, err, fatal, out>>
    /\ UNCHANGED tagVars

\* verifyAllModulesInSet: one iteration of `range modInfoMap`
VerifyAllModulesInSetInfoIter ==
    /\ pc = "verifyAllModulesInSet.info"
    /\ \E modPath \in (DOMAIN modInfoMap) \ visited :
         LET e == CheckModuleInRepo(modPathMap, modInfoMap, modPath) IN
         IF e.kind # "nil"
         THEN /\ Fatal("verifyAllModulesInSet failed", e)
              /\ visited' = {}
         ELSE /\ visited' = visited \cup {modPath}
              /\ UNCHANGED <<pc, fatal, err>>
    /\ UNCHANGED <<versionCfg, fsys, modSetMap, modInfoMap, modPathMap,
                   setMajorVersions, out>>
    /\ UNCHANGED tagVars

\* a variant of the command that goes on to verifyDependencies without
\* calling verifyVersions
VerifyAllModulesInSetReturnSkipVersions ==
    /\ pc = "verifyAllModulesInSet.info"
    /\ visited = DOMAIN modInfoMap
    /\ pc' = "verifyDependencies"
    /\ visited' = {}
    /\ setMajorVersions' = EmptyMap
    /\ out' = Append(out, PassAllModules)
    /\ UNCHANGED <<versionCfg, fsys, modSetMap, modInfoMap, modPathMap,
                   err, fatal>>
    /\ UNCHANGED tagVars

\* verifyAllModulesInSet prints its PASS line and returns nil
VerifyAllModulesInSetReturn ==
    /\ pc = "verifyAllModulesInSet.info"
    /\ visited = DOMAIN modInfoMap
    /\ pc' = "verifyVersions"
    /\ visited' = {}
    /\ setMajorVersions' = EmptyMap
    /\ out' = Append(out, PassAllModules)
    /\ UNCHANGED <<versionCfg, fsys, modSetMap, modInfoMap, modPathMap,
                   err, fatal>>
    /\ UNCHANGED tagVars

\* verifyVersions: one iteration of `range modSetMap`
VerifyVersionsIter ==
    /\ pc = "verifyVersions"
    /\ \E modSetName \in (DOMAIN modSetMap) \ visited :
         LET r == CheckSetVersion(modSetMap, setMajorVersions, modSetName) IN
         IF r.err.kind # "nil"
         THEN /\ Fatal("verifyVersions failed", r.err)
              /\ visited' = {}
              /\ setMajorVersions' = EmptyMap
         ELSE /\ visited' = visited \cup {modSetName}
              /\ setMajorVersions' = r.majors
              /\ UNCHANGED <<pc, fatal, err>>
    /\ UNCHANGED <<versionCfg, fsys, modSetMap, modInfoMap, modPathMap,
                   out>>
    /\ UNCHANGED tagVars

\* verifyVersions prints its PASS line and returns nil
VerifyVersionsReturn ==
    /\ pc = "verifyVersions"
    /\ visited = DOMAIN modSetMap
    /\ pc' = "verifyDependencies"
    /\ visited' = {}
    /\ setMajorVersions' = EmptyMap
    /\ out' = Append(out, PassVersions)
    /\ UNCHANGED <<versionCfg, fsys, modSetMap, modInfoMap, modPathMap,
                   err, fatal>>
    /\ UNCHANGED tagVars

\* verifyDependencies: one iteration of `range modInfoMap`
VerifyDependenciesIter ==
    /\ pc = "verifyDependencies"
    /\ \E modPath \in (DOMAIN modInfoMap) \ visited :
         LET r == CheckModuleDependencies(modInfoMap, modPathMap, fsys, modPath) IN
         IF r.err.kind # "nil"
         THEN /\ Fatal("verifyDependencies failed", r.err)
              /\ visited' = {}
              /\ UNCHANGED out
         ELSE /\ visited' = visited \cup {modPath}
              /\ out' = out \o r.lines
              /\ UNCHANGED <<pc, fatal, err>>
    /\ UNCHANGED <<versionCfg, fsys, modSetMap, modInfoMap, modPathMap,
                   setMajorVersions>>
    /\ UNCHANGED tagVars

\* verifyDependencies returns nil; Run prints the final PASS line and returns
VerifyDependenciesReturn ==
    /\ pc = "verifyDependencies"
    /\ visited = DOMAIN modInfoMap
    /\ pc' = "exit0"
    /\ visited' = {}
    /\ out' = out \o <<FinishedDependencies, PassVerify>>
    /\ UNCHANGED <<versionCfg, fsys, modSetMap, modInfoMap, modPathMap,
                   setMajorVersions, err, fatal>>
    /\ UNCHANGED tagVars

-----------------------------------------------------------------------------
(* Specifications *)

\* the values of the variables a specification does not draw
Idle(at) ==
    /\ pc = at
    /\ visited = {}
    /\ setMajorVersions = EmptyMap
    /\ err = NoError
    /\ fatal = ""
    /\ out = <<>>
    /\ TagIdle

\* ModuleInfoMap values as BuildModuleMap makes them: every module of a set
\* carries the version of its set
ModuleInfoMaps(names, versions) ==
    UNION { { [m \in d |-> [ModuleSetName |-> setOf[m],
                            Version |-> versionOf[setOf[m]]]] :
                setOf \in [d -> names] } :
            d \in SUBSET ModulePaths, versionOf \in [names -> versions] }

\* ModulePathMap values of a repository with one go.mod file per module
ModulePathMaps == {[m \in d |-> GoModOf(m)] : d \in SUBSET ModulePaths}

\* the go.mod files behind a ModulePathMap: one file per discovered module
TreesOf(pathMap) ==
    { [p \in GoModPaths |->
          IF \E m \in DOMAIN pathMap : pathMap[m] = p
          THEN content[CHOOSE m \in DOMAIN pathMap : pathMap[m] = p]
          ELSE NoFile] :
      content \in { c \in [DOMAIN pathMap ->
                             UNION {GoModFiles(m, RequirePaths) : m \in ModulePaths}] :
                    \A m \in DOMAIN pathMap : c[m].module = m } }

\* the module sets of the command-level runs list no module or one module,
\* out of two
RunModulePaths == {"otel/api", "otel/exp"}

RunModuleLists == {<<>>} \cup {<<m>> : m \in RunModulePaths}

RunConfigs ==
    VersionConfigs(ConfigSetNames, ConfigVersions, RunModuleLists, RunModulePaths)
    \cup {UnreadableConfig}

\* repositories of the command-level runs: go.mod files at two places
RunGoModPaths == {"/repo/api/go.mod", "/repo/exp/go.mod"}

RunTrees ==
    { [p \in GoModPaths |-> IF p \in RunGoModPaths THEN files[p] ELSE NoFile] :
      files \in [RunGoModPaths ->
                   {NoFile, UnreadableFile}
                   \cup UNION {GoModFiles(m, RunModulePaths \cup {ExternalPath}) :
                                 m \in RunModulePaths}] }

\* the verify command on a versioning file and a repository
Init ==
    /\ versionCfg \in RunConfigs
    /\ fsys \in RunTrees
    /\ modSetMap = EmptyMap
    /\ modInfoMap = EmptyMap
    /\ modPathMap = EmptyMap
    /\ Idle("Run")

Next ==
    \/ RunBuildModuleSetsMap
    \/ BuildModuleMapEnter
    \/ BuildModuleMapIter
    \/ BuildModuleMapReturn
    \/ RunBuildModulePathMap
    \/ VerifyAllModulesInSetPathIter
    \/ VerifyAllModulesInSetPathDone
    \/ VerifyAllModulesInSetInfoIter
    \/ VerifyAllModulesInSetReturn
    \/ VerifyVersionsIter
    \/ VerifyVersionsReturn
    \/ VerifyDependenciesIter
    \/ VerifyDependenciesReturn

Spec == Init /\ [][Next]_vars

\* verifyAllModulesInSet on any two maps
InitMembers ==
    /\ versionCfg = UnreadableConfig
    /\ fsys = [p \in GoModPaths |-> NoFile]
    /\ modSetMap = EmptyMap
    /\ modPathMap \in ModulePathMaps
    /\ modInfoMap \in ModuleInfoMaps(ConfigSetNames, {V3("1", "2", "0")})
    /\ Idle("verifyAllModulesInSet")

NextMembers ==
    \/ VerifyAllModulesInSetPathIter
    \/ VerifyAllModulesInSetPathDone
    \/ VerifyAllModulesInSetInfoIter
    \/ VerifyAllModulesInSetReturn

SpecMembers == InitMembers /\ [][NextMembers]_vars

\* verifyVersions on any module set map of up to NumVersionSets sets
InitVersions ==
    /\ versionCfg = UnreadableConfig
    /\ fsys = [p \in GoModPaths |-> NoFile]
    /\ \E k \in 0..NumVersionSets :
         modSetMap \in [{SetNameList[i] : i \in 1..k} ->
                          ModuleSetValues(VersionStrings, {<<>>})]
    /\ modInfoMap = EmptyMap
    /\ modPathMap = EmptyMap
    /\ Idle("verifyVersions")

NextVersions ==
    \/ VerifyVersionsIter
    \/ VerifyVersionsReturn

SpecVersions == InitVersions /\ [][NextVersions]_vars

\* verifyDependencies on any module info map and any discovered go.mod files
InitDeps ==
    /\ versionCfg = UnreadableConfig
    /\ modSetMap = EmptyMap
    /\ modInfoMap \in ModuleInfoMaps(ConfigSetNames, {V3("1", "2", "0"), V3("0", "9", "0")})
    /\ modPathMap \in ModulePathMaps
    /\ fsys \in TreesOf(modPathMap)
    /\ Idle("verifyDependencies")

NextDeps ==
    \/ VerifyDependenciesIter
    \/ VerifyDependenciesReturn

SpecDeps == InitDeps /\ [][NextDeps]_vars

-----------------------------------------------------------------------------
(* tools: tag names.  File paths, tag names and full tags are taken apart  *)
(* and put together byte by byte, so here they are sequences of one-       *)
(* character strings, as version strings are.                              *)

\* strings.HasPrefix, strings.HasSuffix, strings.TrimPrefix, strings.TrimSuffix
HasPrefix(s, prefix) ==
    Len(s) >= Len(prefix) /\ SubSeq(s, 1, Len(prefix)) = prefix

HasSuffix(s, suffix) ==
    Len(s) >= Len(suffix) /\ SubSeq(s, Len(s) - Len(suffix) + 1, Len(s)) = suffix

TrimPrefix(s, prefix) ==
    IF HasPrefix(s, prefix) THEN SubSeq(s, Len(prefix) + 1, Len(s)) ELSE s

TrimSuffix(s, suffix) ==
    IF HasSuffix(s, suffix) THEN SubSeq(s, 1, Len(s) - Len(suffix)) ELSE s

\* "/"
Slash == <<"/">>

\* "go.mod"
GoModName == <<"g", "o", ".", "m", "o", "d">>

\* ModuleTagName("repoRootTag")
repoRootTag == <<"r", "e", "p", "o", "R", "o", "o", "t", "T", "a", "g">>

\* the root FindRepoRoot finds: "/repo"
RepoRoot == <<"/", "r", "e", "p", "o">>

\* string(modFilePath): the bytes of the file paths of the repository, and of
\* the zero ModuleFilePath
PathBytes(path) ==
    CASE path = "/repo/api/go.mod" -> <<"/", "r", "e", "p", "o", "/", "a", "p", "i", "/", "g", "o", ".", "m", "o", "d">>
      [] path = "/repo/exp/go.mod" -> <<"/", "r", "e", "p", "o", "/", "e", "x", "p", "/", "g", "o", ".", "m", "o", "d">>
      [] path = "/repo/sdk/go.mod" -> <<"/", "r", "e", "p", "o", "/", "s", "d", "k", "/", "g", "o", ".", "m", "o", "d">>
      [] path = "/repo/go.mod" -> <<"/", "r", "e", "p", "o", "/", "g", "o", ".", "m", "o", "d">>
      [] path = NoPath -> <<>>

\* a variant that puts the tag name before every version
CombineModuleTagNamesAndVersionAlwaysPrefixed(modTagNames, version) ==
    [i \in 1..Len(modTagNames) |-> modTagNames[i] \o Slash \o version]

CombineModuleTagNamesAndVersion(modTagNames, version) ==
    [i \in 1..Len(modTagNames) |->
        IF modTagNames[i] = repoRootTag
        THEN version
        ELSE modTagNames[i] \o Slash \o version]

\* a variant that looks the modules up from the last to the first
modulePathsToFilePathsReversed(modPaths, pathMap) ==
    [err |-> NoError,
     modFilePaths |-> [i \in 1..Len(modPaths) |->
                         IF modPaths[Len(modPaths) + 1 - i] \in DOMAIN pathMap
                         THEN pathMap[modPaths[Len(modPaths) + 1 - i]]
                         ELSE NoPath]]

\* a missing key yields the zero ModuleFilePath; there is no error
modulePathsToFilePaths(modPaths, pathMap) ==
    [err |-> NoError,
     modFilePaths |-> [i \in 1..Len(modPaths) |->
                         IF modPaths[i] \in DOMAIN pathMap
                         THEN pathMap[modPaths[i]] ELSE NoPath]]

\* a variant that accepts a path the trimming has left as it was
tagNameOfTrimmedUnchecked(modFilePath, modTagName) ==
    IF modTagName = GoModName
    THEN [err |-> NoError, modTagName |-> repoRootTag]
    ELSE [err |-> NoError, modTagName |-> modTagName]

\* the tag name once prefix and suffix are trimmed off
tagNameOfTrimmed(modFilePath, modTagName) ==
    IF modTagName = modFilePath
    THEN [err |-> [kind |-> "NotInRepoRoot", modFilePath |-> modFilePath],
          modTagName |-> <<>>]
    ELSE IF modTagName = GoModName
    THEN [err |-> NoError, modTagName |-> repoRootTag]
    ELSE [err |-> NoError, modTagName |-> modTagName]

ModuleFilePathToTagName(modFilePath, repoRoot) ==
    tagNameOfTrimmed(modFilePath,
                     TrimSuffix(TrimPrefix(modFilePath, repoRoot \o Slash),
                                Slash \o GoModName))

\* the loop of moduleFilePathsToTagNames from index i on; tagName is the
\* result of ModuleFilePathToTagName for the path at index i
RECURSIVE tagNamesFrom(_, _, _, _)
tagNamesWith(modFilePaths, repoRoot, modNames, i, tagName) ==
    IF tagName.err.kind # "nil"
    THEN [err |-> [kind |-> "TagName", cause |-> tagName.err], modNames |-> <<>>]
    ELSE tagNamesFrom(modFilePaths, repoRoot,
                      Append(modNames, tagName.modTagName), i + 1)

tagNamesFrom(modFilePaths, repoRoot, modNames, i) ==
    IF i > Len(modFilePaths) THEN [err |-> NoError, modNames |-> modNames]
    ELSE tagNamesWith(modFilePaths, repoRoot, modNames, i,
                      ModuleFilePathToTagName(modFilePaths[i], repoRoot))

moduleFilePathsToTagNames(modFilePaths, repoRoot) ==
    tagNamesFrom(modFilePaths, repoRoot, <<>>, 1)

\* what VersionsAndModulesToUpdate returns when it fails
NoUpdate(e, setsMap, pathMap) ==
    [err |-> e, newVersion |-> <<>>, modPaths |-> <<>>, modTagNames |-> <<>>,
     modSetsMap |-> setsMap, modPathMap |-> pathMap]

\* the second half of VersionsAndModulesToUpdate, once the set is found and
\* the repository walked
updateOfSet(modSet, setsMap, pathMap, modTagNames) ==
    IF modTagNames.err.kind # "nil"
    THEN NoUpdate([kind |-> "ModuleTagNames", cause |-> modTagNames.err],
                  setsMap, pathMap)
    ELSE [err |-> NoError, newVersion |-> modSet.Version,
          modPaths |-> modSet.Modules, modTagNames |-> modTagNames.modNames,
          modSetsMap |-> setsMap, modPathMap |-> pathMap]

\* VersionsAndModulesToUpdate after BuildModulePathMap has returned paths
updateWithPathMap(modSet, setsMap, paths) ==
    IF paths.err.kind # "nil"
    THEN NoUpdate([kind |-> "ModulePathMap", cause |-> paths.err], setsMap, NilMap)
    ELSE updateOfSet(
            modSet, setsMap, paths.modPathMap,
            moduleFilePathsToTagNames(
                [i \in 1..Len(modSet.Modules) |->
                    PathBytes(modulePathsToFilePaths(
                                  modSet.Modules, paths.modPathMap).modFilePaths[i])],
                RepoRoot))

\* a variant that walks the repository before it looks the set up
updateWithSetsMapWalkFirst(cfg, modSetName, tree, sets) ==
    IF sets.err.kind # "nil"
    THEN NoUpdate([kind |-> "ModuleSetsMap", cause |-> sets.err], NilMap, NilMap)
    ELSE IF BuildModulePathMap(cfg, tree).err.kind # "nil"
    THEN NoUpdate([kind |-> "ModulePathMap",
                   cause |-> BuildModulePathMap(cfg, tree).err],
                  sets.modSetMap, NilMap)
    ELSE IF modSetName \notin DOMAIN sets.modSetMap
    THEN NoUpdate([kind |-> "UnknownModuleSet", setName |-> modSetName],
                  sets.modSetMap, BuildModulePathMap(cfg, tree).modPathMap)
    ELSE updateWithPathMap(sets.modSetMap[modSetName], sets.modSetMap,
                           BuildModulePathMap(cfg, tree))

\* VersionsAndModulesToUpdate after BuildModuleSetsMap has returned sets
updateWithSetsMap(cfg, modSetName, tree, sets) ==
    IF sets.err.kind # "nil"
    THEN NoUpdate([kind |-> "ModuleSetsMap", cause |-> sets.err], NilMap, NilMap)
    ELSE IF modSetName \notin DOMAIN sets.modSetMap
    THEN NoUpdate([kind |-> "UnknownModuleSet", setName |-> modSetName],
                  sets.modSetMap, NilMap)
    ELSE updateWithPathMap(sets.modSetMap[modSetName], sets.modSetMap,
                           BuildModulePathMap(cfg, tree))

\* the result, with the two maps the function has built on the way (nil when
\* it has not got that far)
VersionsAndModulesToUpdate(cfg, modSetName, tree) ==
    updateWithSetsMap(cfg, modSetName, tree, BuildModuleSetsMap(cfg))

-----------------------------------------------------------------------------
(* tagging: validateConfig, deleteTags, tagAllModules and main.  git is    *)
(* the environment: a command it is asked to run succeeds or fails, and    *)
(* `git tag -a` cannot succeed on a tag that exists, nor `git tag -d` on   *)
(* one that does not.                                                      *)

\* git rev-parse --quiet --verify: the complete SHA1 of a commit the
\* repository knows
gitRevParse(hash) ==
    CASE hash = "1a2b3c" -> [err |-> NoError, SHA |-> "1a2b3c4d5e6f"]
      [] hash = "7f8e9d" -> [err |-> NoError, SHA |-> "7f8e9d0c1b2a"]
      [] hash = "c0ffee" -> [err |-> NoError, SHA |-> "c0ffee112233"]
      [] OTHER -> [err |-> [kind |-> "RevParse", hash |-> hash], SHA |-> ""]

\* git merge-base SHA HEAD: 1a2b3c is on the branch, 7f8e9d has left it at
\* 1a2b3c, c0ffee shares no history with it
gitMergeBase(SHA) ==
    CASE SHA = "1a2b3c4d5e6f" -> [err |-> NoError, output |-> "1a2b3c4d5e6f"]
      [] SHA = "7f8e9d0c1b2a" -> [err |-> NoError, output |-> "1a2b3c4d5e6f"]
      [] OTHER -> [err |-> [kind |-> "MergeBase", SHA |-> SHA], output |-> ""]

\* what validateConfig returns with an error
NoConfig(e) ==
    [err |-> e,
     cfg |-> [ModuleSet |-> "", CommitHash |-> "", DeleteModuleSetTags |-> FALSE]]

\* a variant that takes any commit with which HEAD shares history
validateMergeBaseAnyBranch(c, SHA, base) ==
    IF base.err.kind # "nil" THEN NoConfig(base.err)
    ELSE [err |-> NoError, cfg |-> [c EXCEPT !.CommitHash = SHA]]

\* validateConfig once `git merge-base` has run
validateMergeBase(c, SHA, base) ==
    IF base.err.kind # "nil" THEN NoConfig(base.err)
    ELSE IF base.output # SHA
    THEN NoConfig([kind |-> "NotOnBranch", hash |-> c.CommitHash, SHA |-> SHA])
    ELSE [err |-> NoError, cfg |-> [c EXCEPT !.CommitHash = SHA]]

\* validateConfig once `git rev-parse` has run
validateCommit(c, rev) ==
    IF rev.err.kind # "nil" THEN NoConfig(rev.err)
    ELSE validateMergeBase(c, rev.SHA, gitMergeBase(rev.SHA))

\* a variant that asks for a commit hash in delete mode too
validateConfigCommitRequired(c) ==
    IF c.ModuleSet = "" THEN NoConfig([kind |-> "NoModuleSet"])
    ELSE IF c.CommitHash = "" THEN NoConfig([kind |-> "NoCommitHash"])
    ELSE validateCommit(c, gitRevParse(c.CommitHash))

\* the versioning file is given or found at the root of the repository
validateConfig(c) ==
    IF c.ModuleSet = "" THEN NoConfig([kind |-> "NoModuleSet"])
    ELSE IF ~c.DeleteModuleSetTags
    THEN IF c.CommitHash = "" THEN NoConfig([kind |-> "NoCommitHash"])
         ELSE validateCommit(c, gitRevParse(c.CommitHash))
    ELSE [err |-> NoError, cfg |-> c]

\* the locals of main, tagAllModules and deleteTags
Frame(fn, newVersion, newModTagNames) ==
    [fn |-> fn, newVersion |-> newVersion, newModTagNames |-> newModTagNames,
     modFullTags |-> <<>>, addedFullTags |-> <<>>, i |-> 1,
     toDelete |-> <<>>, j |-> 1, newFullTag |-> <<>>]

\* the outcomes git can give
GitTagOutcomes(tag) == IF tag \in DOMAIN gitTags THEN {FALSE} ELSE BOOLEAN

GitTagDeleteOutcomes(tag) == IF tag \in DOMAIN gitTags THEN BOOLEAN ELSE {FALSE}

\* a variant that leaves the commit out of the command, so that git tags HEAD
GitTagHead(tag, commitHash, ok) ==
    /\ gitTags' = IF ok THEN Put(gitTags, tag, "HEAD") ELSE gitTags
    /\ gitLog' = Append(gitLog, [cmd |-> "tag -a", tag |-> tag,
                                 commit |-> "HEAD", ok |-> ok])

\* exec.Command("git", "tag", "-a", tag, "-s", "-m", ..., commitHash)
GitTag(tag, commitHash, ok) ==
    /\ gitTags' = IF ok THEN Put(gitTags, tag, commitHash) ELSE gitTags
    /\ gitLog' = Append(gitLog, [cmd |-> "tag -a", tag |-> tag,
                                 commit |-> commitHash, ok |-> ok])

\* exec.Command("git", "tag", "-d", tag)
GitTagDelete(tag, ok) ==
    /\ gitTags' = IF ok THEN [t \in (DOMAIN gitTags) \ {tag} |-> gitTags[t]]
                  ELSE gitTags
    /\ gitLog' = Append(gitLog, [cmd |-> "tag -d", tag |-> tag,
                                 commit |-> "", ok |-> ok])

DeleteLine(tag) == [line |-> "git tag -d", tag |-> tag]

TagLine(tag, commitHash) == [line |-> "git tag -a", tag |-> tag, commit |-> commitHash]

RemovingLine == [line |-> "error creating a tag, removing all newly created tags..."]

DeletedLine == [line |-> "Successfully deleted module tags"]

DeleteTagError(tag) == [kind |-> "DeleteTag", tag |-> tag]

\* the two errors of tagAllModules
TagError(tag) == [kind |-> "GitTag", tag |-> tag]

TagAndDeleteError(tag, delTagsErr) ==
    [kind |-> "GitTagAndDelete", tag |-> tag, delTagsErr |-> delTagsErr]

\* everything of the verify command that the tag command leaves alone
verifyLocals == <<modInfoMap, visited, setMajorVersions>>

\* main: flags parsed, validateConfig; an error prints the usage and exits -1
TagValidateConfig ==
    /\ pc = "tag.main"
    /\ LET r == validateConfig(tagCfg) IN
       IF r.err.kind # "nil"
       THEN /\ pc' = "exit-1"
            /\ err' = r.err
            /\ tagCfg' = r.cfg
            /\ out' = Append(out, [line |-> "usage"])
       ELSE /\ pc' = "tag.VersionsAndModulesToUpdate"
            /\ tagCfg' = r.cfg
            /\ out' = Append(out, [line |-> "Changing to root directory..."])
            /\ UNCHANGED err
    /\ UNCHANGED <<versionCfg, fsys, modSetMap, modPathMap, fatal, gitTags,
                   gitLog, frame>>
    /\ UNCHANGED verifyLocals

\* main: tools.FindRepoRoot, tools.VersionsAndModulesToUpdate
TagVersionsAndModulesToUpdate ==
    /\ pc = "tag.VersionsAndModulesToUpdate"
    /\ LET r == VersionsAndModulesToUpdate(versionCfg, tagCfg.ModuleSet, fsys) IN
       /\ modSetMap' = r.modSetsMap
       /\ modPathMap' = r.modPathMap
       /\ IF r.err.kind # "nil"
          THEN /\ Fatal("unable to get modules to update", r.err)
               /\ UNCHANGED frame
          ELSE /\ pc' = IF tagCfg.DeleteModuleSetTags THEN "tag.delete"
                        ELSE "tagAllModules"
               /\ frame' = Frame("main", r.newVersion, r.modTagNames)
               /\ UNCHANGED <<fatal, err>>
    /\ UNCHANGED <<versionCfg, fsys, out, tagCfg, gitTags, gitLog>>
    /\ UNCHANGED verifyLocals

\* main in delete mode: the full tags to delete, and deleteTags is called
TagDeleteEnter ==
    /\ pc = "tag.delete"
    /\ pc' = "tag.delete.deleteTags"
    /\ frame' = [frame EXCEPT
                   !.fn = "deleteTags",
                   !.toDelete = CombineModuleTagNamesAndVersion(
                                    frame.newModTagNames, frame.newVersion),
                   !.j = 1]
    /\ UNCHANGED <<versionCfg, fsys, modSetMap, modPathMap, err, fatal, out,
                   tagCfg, gitTags, gitLog>>
    /\ UNCHANGED verifyLocals

\* deleteTags called by main: one iteration of its loop; its error is fatal
TagDeleteIter ==
    /\ pc = "tag.delete.deleteTags"
    /\ frame.j <= Len(frame.toDelete)
    /\ \E ok \in GitTagDeleteOutcomes(frame.toDelete[frame.j]) :
         /\ GitTagDelete(frame.toDelete[frame.j], ok)
         /\ out' = Append(out, DeleteLine(frame.toDelete[frame.j]))
         /\ IF ok
            THEN /\ frame' = [frame EXCEPT !.j = frame.j + 1]
                 /\ UNCHANGED <<pc, fatal, err>>
            ELSE /\ Fatal("unable to delete module tags",
                          DeleteTagError(frame.toDelete[frame.j]))
                 /\ UNCHANGED frame
    /\ UNCHANGED <<versionCfg, fsys, modSetMap, modPathMap, tagCfg>>
    /\ UNCHANGED verifyLocals

\* deleteTags returns nil to main, which exits 0
TagDeleteReturn ==
    /\ pc = "tag.delete.deleteTags"
    /\ frame.j > Len(frame.toDelete)
    /\ pc' = "exit0"
    /\ out' = Append(out, DeletedLine)
    /\ UNCHANGED <<versionCfg, fsys, modSetMap, modPathMap, err, fatal,
                   tagCfg, gitTags, gitLog, frame>>
    /\ UNCHANGED verifyLocals

\* tagAllModules is called: the full tags, and no tag added yet
TagAllModulesEnter ==
    /\ pc = "tagAllModules"
    /\ pc' = "tagAllModules.range"
    /\ frame' = [frame EXCEPT
                   !.fn = "tagAllModules",
                   !.modFullTags = CombineModuleTagNamesAndVersion(
                                       frame.newModTagNames, frame.newVersion),
                   !.addedFullTags = <<>>,
                   !.i = 1]
    /\ UNCHANGED <<versionCfg, fsys, modSetMap, modPathMap, err, fatal, out,
                   tagCfg, gitTags, gitLog>>
    /\ UNCHANGED verifyLocals

\* a variant that returns the error of git tag without removing the tags added
TagAllModulesIterNoRollback ==
    /\ pc = "tagAllModules.range"
    /\ frame.i <= Len(frame.modFullTags)
    /\ \E ok \in GitTagOutcomes(frame.modFullTags[frame.i]) :
         /\ GitTag(frame.modFullTags[frame.i], tagCfg.CommitHash, ok)
         /\ IF ok
            THEN /\ frame' = [frame EXCEPT
                                !.addedFullTags =
                                    Append(frame.addedFullTags,
                                           frame.modFullTags[frame.i]),
                                !.i = frame.i + 1]
                 /\ out' = Append(out, TagLine(frame.modFullTags[frame.i],
                                               tagCfg.CommitHash))
                 /\ UNCHANGED pc
            ELSE /\ frame' = [frame EXCEPT
                                !.fn = "deleteTags",
                                !.newFullTag = frame.modFullTags[frame.i],
                                !.toDelete = <<>>,
                                !.j = 1]
                 /\ out' = out \o <<TagLine(frame.modFullTags[frame.i],
                                            tagCfg.CommitHash), RemovingLine>>
                 /\ pc' = "tagAllModules.deleteTags"
    /\ UNCHANGED <<versionCfg, fsys, modSetMap, modPathMap, err, fatal, tagCfg>>
    /\ UNCHANGED verifyLocals

\* a variant whose rollback covers the tag that git has refused to create
TagAllModulesIterRollbackAll ==
    /\ pc = "tagAllModules.range"
    /\ frame.i <= Len(frame.modFullTags)
    /\ \E ok \in GitTagOutcomes(frame.modFullTags[frame.i]) :
         /\ GitTag(frame.modFullTags[frame.i], tagCfg.CommitHash, ok)
         /\ IF ok
            THEN /\ frame' = [frame EXCEPT
                                !.addedFullTags =
                                    Append(frame.addedFullTags,
                                           frame.modFullTags[frame.i]),
                                !.i = frame.i + 1]
                 /\ out' = Append(out, TagLine(frame.modFullTags[frame.i],
                                               tagCfg.CommitHash))
                 /\ UNCHANGED pc
            ELSE /\ frame' = [frame EXCEPT
                                !.fn = "deleteTags",
                                !.newFullTag = frame.modFullTags[frame.i],
                                !.toDelete = Append(frame.addedFullTags,
                                                    frame.modFullTags[frame.i]),
                                !.j = 1]
                 /\ out' = out \o <<TagLine(frame.modFullTags[frame.i],
                                            tagCfg.CommitHash), RemovingLine>>
                 /\ pc' = "tagAllModules.deleteTags"
    /\ UNCHANGED <<versionCfg, fsys, modSetMap, modPathMap, err, fatal, tagCfg>>
    /\ UNCHANGED verifyLocals

\* tagAllModules: one iteration of the loop over modFullTags; when git fails,
\* deleteTags(addedFullTags) is called
TagAllModulesIter ==
    /\ pc = "tagAllModules.range"
    /\ frame.i <= Len(frame.modFullTags)
    /\ \E ok \in GitTagOutcomes(frame.modFullTags[frame.i]) :
         /\ GitTag(frame.modFullTags[frame.i], tagCfg.CommitHash, ok)
         /\ IF ok
            THEN /\ frame' = [frame EXCEPT
                                !.addedFullTags =
                                    Append(frame.addedFullTags,
                                           frame.modFullTags[frame.i]),
                                !.i = frame.i + 1]
                 /\ out' = Append(out, TagLine(frame.modFullTags[frame.i],
                                               tagCfg.CommitHash))
                 /\ UNCHANGED pc
            ELSE /\ frame' = [frame EXCEPT
                                !.fn = "deleteTags",
                                !.newFullTag = frame.modFullTags[frame.i],
                                !.toDelete = frame.addedFullTags,
                                !.j = 1]
                 /\ out' = out \o <<TagLine(frame.modFullTags[frame.i],
                                            tagCfg.CommitHash), RemovingLine>>
                 /\ pc' = "tagAllModules.deleteTags"
    /\ UNCHANGED <<versionCfg, fsys, modSetMap, modPathMap, err, fatal, tagCfg>>
    /\ UNCHANGED verifyLocals

\* a variant that tries a deletion again when it has failed
TagRollbackIterRetry ==
    /\ pc = "tagAllModules.deleteTags"
    /\ frame.j <= Len(frame.toDelete)
    /\ \E ok \in GitTagDeleteOutcomes(frame.toDelete[frame.j]) :
         /\ GitTagDelete(frame.toDelete[frame.j], ok)
         /\ out' = Append(out, DeleteLine(frame.toDelete[frame.j]))
         /\ Len(gitLog) < 8
         /\ frame' = IF ok THEN [frame EXCEPT !.j = frame.j + 1] ELSE frame
         /\ UNCHANGED <<pc, fatal, err>>
    /\ UNCHANGED <<versionCfg, fsys, modSetMap, modPathMap, tagCfg>>
    /\ UNCHANGED verifyLocals

\* deleteTags called by tagAllModules: one iteration of its loop; its error
\* makes tagAllModules return both errors, and that is fatal in main
TagRollbackIter ==
    /\ pc = "tagAllModules.deleteTags"
    /\ frame.j <= Len(frame.toDelete)
    /\ \E ok \in GitTagDeleteOutcomes(frame.toDelete[frame.j]) :
         /\ GitTagDelete(frame.toDelete[frame.j], ok)
         /\ out' = Append(out, DeleteLine(frame.toDelete[frame.j]))
         /\ IF ok
            THEN /\ frame' = [frame EXCEPT !.j = frame.j + 1]
                 /\ UNCHANGED <<pc, fatal, err>>
            ELSE /\ Fatal("unable to tag modules",
                          TagAndDeleteError(
                              frame.newFullTag,
                              DeleteTagError(frame.toDelete[frame.j])))
                 /\ UNCHANGED frame
    /\ UNCHANGED <<versionCfg, fsys, modSetMap, modPathMap, tagCfg>>
    /\ UNCHANGED verifyLocals

\* deleteTags returns nil; tagAllModules returns the error of git tag, and
\* that is fatal in main
TagRollbackReturn ==
    /\ pc = "tagAllModules.deleteTags"
    /\ frame.j > Len(frame.toDelete)
    /\ Fatal("unable to tag modules", TagError(frame.newFullTag))
    /\ UNCHANGED <<versionCfg, fsys, modSetMap, modPathMap, out, tagCfg,
                   gitTags, gitLog, frame>>
    /\ UNCHANGED verifyLocals

\* tagAllModules returns nil; printChanges does nothing; main returns
TagAllModulesReturn ==
    /\ pc = "tagAllModules.range"
    /\ frame.i > Len(frame.modFullTags)
    /\ pc' = "exit0"
    /\ UNCHANGED <<versionCfg, fsys, modSetMap, modPathMap, err, fatal, out,
                   tagCfg, gitTags, gitLog, frame>>
    /\ UNCHANGED verifyLocals

\* the module lists of the set the tag command is run on: none, one, two
\* and three modules, and a list that names a module twice
TagModuleLists ==
    { <<>>, <<"otel/api">>, <<"otel/api", "otel/sdk">>,
      <<"otel/sdk", "otel/api", "otel/exp">>, <<"otel/api", "otel/api">>,
      <<"otel/api", RootModule>> }

\* versioning files with the set stable-core at v1.2.0, or with no set
TagConfigs ==
    VersionConfigs({"stable-core"}, {V3("1", "2", "0")}, TagModuleLists,
                   {"otel/exp"})
    \cup {UnreadableConfig}

\* a go.mod file with no require directive
PlainGoMod(m) == [kind |-> "file", module |-> m, require |-> <<>>, parses |-> TRUE]

\* repositories in which each module has its go.mod file or has none, and
\* one in which a go.mod file cannot be read
TagTrees ==
    { [p \in GoModPaths |->
          IF p \in present
          THEN PlainGoMod(CHOOSE m \in ModulePaths \cup {RootModule} : GoModOf(m) = p)
          ELSE NoFile] : present \in SUBSET GoModPaths }
    \cup { [p \in GoModPaths |->
              IF p = "/repo/sdk/go.mod" THEN UnreadableFile
              ELSE PlainGoMod(CHOOSE m \in ModulePaths \cup {RootModule} : GoModOf(m) = p)] }

\* command lines: no module set, the set of the versioning file, a set it
\* does not have; no commit hash, a commit on the branch, one off it, one
\* without common history, one git does not know
TagCommandLines ==
    [ModuleSet : {"", "stable-core", "contrib"},
     CommitHash : {"", "1a2b3c", "7f8e9d", "c0ffee", "ffffff"},
     DeleteModuleSetTags : BOOLEAN]

\* the tags of the repository before the command runs: none, or tags of the
\* set at v1.2.0 on an earlier commit
TagRepositories ==
    { [t \in Range(SubSeq(<<<<"a", "p", "i", "/", "v", "1", ".", "2", ".", "0">>, <<"s", "d", "k", "/", "v", "1", ".", "2", ".", "0">>, <<"e", "x", "p", "/", "v", "1", ".", "2", ".", "0">>, <<"v", "1", ".", "2", ".", "0">>>>, 1, k)) |-> "0a1b2c3d4e5f"] :
      k \in 0..4 }

\* the tag command on a versioning file, a repository and a command line
InitTag ==
    /\ versionCfg \in TagConfigs
    /\ fsys \in TagTrees
    /\ tagCfg \in TagCommandLines
    /\ gitTags \in TagRepositories
    /\ gitLog = <<>>
    /\ frame = NoFrame
    /\ pc = "tag.main"
    /\ modSetMap = EmptyMap
    /\ modInfoMap = EmptyMap
    /\ modPathMap = EmptyMap
    /\ visited = {}
    /\ setMajorVersions = EmptyMap
    /\ err = NoError
    /\ fatal = ""
    /\ out = <<>>

NextTag ==
    \/ TagValidateConfig
    \/ TagVersionsAndModulesToUpdate
    \/ TagDeleteEnter
    \/ TagDeleteIter
    \/ TagDeleteReturn
    \/ TagAllModulesEnter
    \/ TagAllModulesIter
    \/ TagRollbackIter
    \/ TagRollbackReturn
    \/ TagAllModulesReturn

SpecTag == InitTag /\ [][NextTag]_vars

\* the names VersionsAndModulesToUpdate is called with: the set of the
\* versioning file, a set it does not have, no name
UpdateSetNames == {"stable-core", "contrib", ""}

\* a call of VersionsAndModulesToUpdate, about to run
UpdateCall(modSetName) ==
    [fn |-> "VersionsAndModulesToUpdate", modSetName |-> modSetName]

\* VersionsAndModulesToUpdate from its first line to its return
CallVersionsAndModulesToUpdate ==
    /\ pc = "VersionsAndModulesToUpdate"
    /\ LET r == VersionsAndModulesToUpdate(versionCfg, frame.modSetName, fsys) IN
       /\ modSetMap' = r.modSetsMap
       /\ modPathMap' = r.modPathMap
       /\ err' = r.err
       /\ frame' = [fn |-> "VersionsAndModulesToUpdate",
                    modSetName |-> frame.modSetName,
                    newVersion |-> r.newVersion,
                    modPaths |-> r.modPaths,
                    modTagNames |-> r.modTagNames]
    /\ pc' = "VersionsAndModulesToUpdate.return"
    /\ UNCHANGED <<versionCfg, fsys, fatal, out, tagCfg, gitTags, gitLog>>
    /\ UNCHANGED verifyLocals

\* VersionsAndModulesToUpdate on a versioning file, a repository and a name
InitUpdate ==
    /\ versionCfg \in TagConfigs
    /\ fsys \in TagTrees
    /\ \E n \in UpdateSetNames : frame = UpdateCall(n)
    /\ tagCfg = NoTagConfig
    /\ gitTags = EmptyMap
    /\ gitLog = <<>>
    /\ pc = "VersionsAndModulesToUpdate"
    /\ modSetMap = EmptyMap
    /\ modInfoMap = EmptyMap
    /\ modPathMap = EmptyMap
    /\ visited = {}
    /\ setMajorVersions = EmptyMap
    /\ err = NoError
    /\ fatal = ""
    /\ out = <<>>

NextUpdate == CallVersionsAndModulesToUpdate

SpecUpdate == InitUpdate /\ [][NextUpdate]_vars

\* the deepest directory of a go.mod file, counted in path elements
MaxDirDepth == 2

\* names of directories: two plain ones, one named as the go.mod file is,
\* one named as the tag name of the repository root is
DirNames == {<<"a", "p", "i">>, <<"s", "d", "k">>, GoModName, repoRootTag}

\* filepath.Join of path elements
RECURSIVE JoinPath(_)
JoinPath(elems) ==
    IF elems = <<>> THEN <<>>
    ELSE IF Len(elems) = 1 THEN elems[1]
    ELSE elems[1] \o Slash \o JoinPath(Tail(elems))

\* the directories, relative to a root, down to MaxDirDepth; the root itself
\* is the empty one
RelativeDirs == {JoinPath(d) : d \in SeqsUpTo(DirNames, MaxDirDepth)}

\* the root of the repository, and the root of another tree
TagNameRoots == {RepoRoot, <<"/", "w">>}

\* the go.mod file of directory dir below root
GoModIn(root, dir) ==
    IF dir = <<>> THEN root \o Slash \o GoModName
    ELSE root \o Slash \o dir \o Slash \o GoModName

\* a call of ModuleFilePathToTagName, about to run
TagNameCall(modFilePath, repoRoot) ==
    [fn |-> "ModuleFilePathToTagName", modFilePath |-> modFilePath,
     repoRoot |-> repoRoot]

\* ModuleFilePathToTagName from its first line to its return
CallModuleFilePathToTagName ==
    /\ pc = "ModuleFilePathToTagName"
    /\ LET r == ModuleFilePathToTagName(frame.modFilePath, frame.repoRoot) IN
       /\ err' = r.err
       /\ frame' = [fn |-> "ModuleFilePathToTagName",
                    modFilePath |-> frame.modFilePath,
                    repoRoot |-> frame.repoRoot,
                    modTagName |-> r.modTagName]
    /\ pc' = "ModuleFilePathToTagName.return"
    /\ UNCHANGED <<versionCfg, fsys, modSetMap, modPathMap, fatal, out,
                   tagCfg, gitTags, gitLog>>
    /\ UNCHANGED verifyLocals

\* the variables of the commands, none of which is running
NoCommand ==
    /\ versionCfg = UnreadableConfig
    /\ fsys = [p \in GoModPaths |-> NoFile]
    /\ tagCfg = NoTagConfig
    /\ gitTags = EmptyMap
    /\ gitLog = <<>>
    /\ modSetMap = EmptyMap
    /\ modInfoMap = EmptyMap
    /\ modPathMap = EmptyMap
    /\ visited = {}
    /\ setMajorVersions = EmptyMap
    /\ err = NoError
    /\ fatal = ""
    /\ out = <<>>

\* ModuleFilePathToTagName on the go.mod file of a directory of the
\* repository or of another tree
InitTagName ==
    /\ \E root, repoRoot \in TagNameRoots : \E dir \in RelativeDirs :
           frame = TagNameCall(GoModIn(root, dir), repoRoot)
    /\ pc = "ModuleFilePathToTagName"
    /\ NoCommand

NextTagName == CallModuleFilePathToTagName

SpecTagName == InitTagName /\ [][NextTagName]_vars

\* the longest list of tag names
MaxTags == 3

\* tag names: of the repository root, of two directories, and the empty one
CombineTagNames == {repoRootTag, <<"a", "p", "i">>, <<"s", "d", "k", "/", "m", "e", "t", "r", "i", "c">>, <<>>}

CombineVersions == {V3("1", "2", "0"), V3("0", "1", "0")}

\* a call of CombineModuleTagNamesAndVersion, about to run
CombineCall(modTagNames, version) ==
    [fn |-> "CombineModuleTagNamesAndVersion", modTagNames |-> modTagNames,
     version |-> version]

\* CombineModuleTagNamesAndVersion from its first line to its return; the
\* result is a slice of its own
CallCombineModuleTagNamesAndVersion ==
    /\ pc = "CombineModuleTagNamesAndVersion"
    /\ frame' = [fn |-> "CombineModuleTagNamesAndVersion",
                 modTagNames |-> frame.modTagNames,
                 version |-> frame.version,
                 modFullTags |->
                     CombineModuleTagNamesAndVersion(frame.modTagNames,
                                                     frame.version)]
    /\ pc' = "CombineModuleTagNamesAndVersion.return"
    /\ UNCHANGED <<versionCfg, fsys, modSetMap, modPathMap, err, fatal, out,
                   tagCfg, gitTags, gitLog>>
    /\ UNCHANGED verifyLocals

\* CombineModuleTagNamesAndVersion on a list of tag names and a version
InitCombine ==
    /\ \E names \in SeqsUpTo(CombineTagNames, MaxTags) :
           \E version \in CombineVersions : frame = CombineCall(names, version)
    /\ pc = "CombineModuleTagNamesAndVersion"
    /\ NoCommand

NextCombine == CallCombineModuleTagNamesAndVersion

SpecCombine == InitCombine /\ [][NextCombine]_vars

\* the modules that go.mod files of the walked repositories declare
WalkModulePaths == {"otel/api", "otel/exp"}

\* versioning files with some of these modules excluded, and one that cannot
\* be read
WalkConfigs ==
    {[ok |-> TRUE, ModuleSets |-> EmptyMap, ExcludedModules |-> SetToSeq(ex)] :
        ex \in SUBSET WalkModulePaths}
    \cup {UnreadableConfig}

\* repositories whose go.mod files may declare the same module at several
\* places, may not be readable, and may make filepath.Walk report an error
WalkTrees ==
    [GoModPaths -> {NoFile, UnreadableFile, WalkErrorFile}
                   \cup {PlainGoMod(m) : m \in WalkModulePaths}]

\* BuildModulePathMap from its first line to its return
CallBuildModulePathMap ==
    /\ pc = "tools.BuildModulePathMap"
    /\ LET r == BuildModulePathMap(versionCfg, fsys) IN
       /\ modPathMap' = r.modPathMap
       /\ err' = r.err
       /\ out' = out \o r.warnings
    /\ pc' = "tools.BuildModulePathMap.return"
    /\ UNCHANGED <<versionCfg, fsys, modSetMap, fatal>>
    /\ UNCHANGED tagVars
    /\ UNCHANGED verifyLocals

\* BuildModulePathMap on a versioning file and a repository
InitWalk ==
    /\ versionCfg \in WalkConfigs
    /\ fsys \in WalkTrees
    /\ pc = "tools.BuildModulePathMap"
    /\ modSetMap = EmptyMap
    /\ modInfoMap = EmptyMap
    /\ modPathMap = EmptyMap
    /\ visited = {}
    /\ setMajorVersions = EmptyMap
    /\ err = NoError
    /\ fatal = ""
    /\ out = <<>>
    /\ TagIdle

NextWalk == CallBuildModulePathMap

SpecWalk == InitWalk /\ [][NextWalk]_vars

\* a variant of the check of the prerelease command that looks for
\* <tag name>/<version> for every module
checkedFullTagsAlwaysPrefixed(update) ==
    IF update.err.kind # "nil" THEN [err |-> update.err, modFullTags |-> <<>>]
    ELSE [err |-> NoError,
          modFullTags |->
              CombineModuleTagNamesAndVersionAlwaysPrefixed(update.modTagNames,
                                                            update.newVersion)]

\* the full tags verifyGitTagsDoNotAlreadyExist looks for, given what
\* VersionsAndModulesToUpdate has returned to the prerelease command
checkedFullTags(update) ==
    IF update.err.kind # "nil" THEN [err |-> update.err, modFullTags |-> <<>>]
    ELSE [err |-> NoError,
          modFullTags |-> CombineModuleTagNamesAndVersion(update.modTagNames,
                                                          update.newVersion)]

\* the full tags tagAllModules creates, given what VersionsAndModulesToUpdate
\* has returned to the tag command
createdFullTags(update) ==
    IF update.err.kind # "nil" THEN [err |-> update.err, modFullTags |-> <<>>]
    ELSE [err |-> NoError,
          modFullTags |-> CombineModuleTagNamesAndVersion(update.modTagNames,
                                                          update.newVersion)]

\* neither command has derived its full tags
NoFullTags == [fn |-> "fullTags", checked |-> <<>>, created |-> <<>>]

\* the prerelease command derives the full tags it checks
PrereleaseDerivesFullTags ==
    /\ pc \in {"fullTags", "fullTags.tag"}
    /\ frame' = [frame EXCEPT !.checked =
                    <<checkedFullTags(
                          VersionsAndModulesToUpdate(versionCfg, tagCfg.ModuleSet,
                                                     fsys))>>]
    /\ pc' = IF pc = "fullTags" THEN "fullTags.prerelease" ELSE "fullTags.both"
    /\ UNCHANGED <<versionCfg, fsys, modSetMap, modPathMap, err, fatal, out,
                   tagCfg, gitTags, gitLog>>
    /\ UNCHANGED verifyLocals

\* the tag command derives the full tags it creates
TagDerivesFullTags ==
    /\ pc \in {"fullTags", "fullTags.prerelease"}
    /\ frame' = [frame EXCEPT !.created =
                    <<createdFullTags(
                          VersionsAndModulesToUpdate(versionCfg, tagCfg.ModuleSet,
                                                     fsys))>>]
    /\ pc' = IF pc = "fullTags" THEN "fullTags.tag" ELSE "fullTags.both"
    /\ UNCHANGED <<versionCfg, fsys, modSetMap, modPathMap, err, fatal, out,
                   tagCfg, gitTags, gitLog>>
    /\ UNCHANGED verifyLocals

\* the two commands on the same versioning file, repository and module set
InitFullTags ==
    /\ versionCfg \in TagConfigs
    /\ fsys \in TagTrees
    /\ \E n \in UpdateSetNames :
           tagCfg = [ModuleSet |-> n, CommitHash |-> "",
                     DeleteModuleSetTags |-> FALSE]
    /\ frame = NoFullTags
    /\ pc = "fullTags"
    /\ gitTags = EmptyMap
    /\ gitLog = <<>>
    /\ modSetMap = EmptyMap
    /\ modInfoMap = EmptyMap
    /\ modPathMap = EmptyMap
    /\ visited = {}
    /\ setMajorVersions = EmptyMap
    /\ err = NoError
    /\ fatal = ""
    /\ out = <<>>

NextFullTags == PrereleaseDerivesFullTags \/ TagDerivesFullTags

SpecFullTags == InitFullTags /\ [][NextFullTags]_vars

\* the versions of the set whose module has the go.mod file
FullTagVersions == {V3("1", "2", "0"), <<"v", "1", ".", "0", ".", "0", "-", "r", "c", ".", "1">>}

\* a call that derives the full tag of the module of a go.mod file
FullTagCall(modFilePath, repoRoot, version) ==
    [fn |-> "fullTag", modFilePath |-> modFilePath, repoRoot |-> repoRoot,
     version |-> version]

\* ModuleFilePathToTagName and, on its result, CombineModuleTagNamesAndVersion
DeriveFullTag ==
    /\ pc = "fullTag"
    /\ LET r == ModuleFilePathToTagName(frame.modFilePath, frame.repoRoot) IN
       /\ err' = r.err
       /\ frame' = [fn |-> "fullTag",
                    modFilePath |-> frame.modFilePath,
                    repoRoot |-> frame.repoRoot,
                    version |-> frame.version,
                    modTagName |-> r.modTagName,
                    modFullTags |->
                        IF r.err.kind # "nil" THEN <<>>
                        ELSE CombineModuleTagNamesAndVersion(<<r.modTagName>>,
                                                             frame.version)]
    /\ pc' = "fullTag.return"
    /\ UNCHANGED <<versionCfg, fsys, modSetMap, modPathMap, fatal, out,
                   tagCfg, gitTags, gitLog>>
    /\ UNCHANGED verifyLocals

\* the full tag of the go.mod file of a directory of the repository, or of
\* its root, at a version
InitFullTag ==
    /\ \E dir \in RelativeDirs : \E version \in FullTagVersions :
           \E root \in TagNameRoots :
               frame = FullTagCall(GoModIn(root, dir), root, version)
    /\ pc = "fullTag"
    /\ NoCommand

NextFullTag == DeriveFullTag

SpecFullTag == InitFullTag /\ [][NextFullTag]_vars

-----------------------------------------------------------------------------
(* cmd: updateGoModVersions and updateAllGoModFiles.  The content of a     *)
(* go.mod file is a sequence of one-character strings, and the regular     *)
(* expression of updateGoModVersions is compiled and run on it: escaped    *)
(* characters, literal characters, ".", "[0-9]" and "[0-9]*" are all it    *)
(* is made of.                                                             *)

\* string(modPath)
ModulePathBytes(modPath) ==
    CASE modPath = "otel/api" -> <<"o", "t", "e", "l", "/", "a", "p", "i">>
      [] modPath = "otel/exp" -> <<"o", "t", "e", "l", "/", "e", "x", "p">>
      [] modPath = "otel/sdk" -> <<"o", "t", "e", "l", "/", "s", "d", "k">>
      [] modPath = RootModule -> <<"o", "t", "e", "l">>

\* strings.Replace(s, old, new, -1) for a one-character old
RECURSIVE stringsReplace(_, _, _)
stringsReplace(str, old, new) ==
    IF str = <<>> THEN <<>>
    ELSE (IF Head(str) = old THEN new ELSE <<Head(str)>>)
         \o stringsReplace(Tail(str), old, new)

filePathToRegex(fpath) ==
    stringsReplace(stringsReplace(fpath, "/", <<"\\", "/">>), ".", <<"\\", ".">>)

\* ` v[0-9]*\.[0-9]*\.[0-9]`
OldVersionPattern == <<" ", "v", "[", "0", "-", "9", "]", "*", "\\", ".", "[", "0", "-", "9", "]", "*", "\\", ".", "[", "0", "-", "9", "]">>

\* regexp.Compile on the expressions updateGoModVersions builds: the program
\* of the expression from position i on
RECURSIVE regexpCompileFrom(_, _)
regexpCompileFrom(expr, i) ==
    IF i > Len(expr) THEN <<>>
    ELSE IF expr[i] = "\\" /\ i < Len(expr)
    THEN <<[op |-> "char", c |-> expr[i + 1]]>> \o regexpCompileFrom(expr, i + 2)
    ELSE IF i + 5 <= Len(expr) /\ SubSeq(expr, i, i + 5) = <<"[", "0", "-", "9", "]", "*">>
    THEN <<[op |-> "digits", c |-> ""]>> \o regexpCompileFrom(expr, i + 6)
    ELSE IF i + 4 <= Len(expr) /\ SubSeq(expr, i, i + 4) = <<"[", "0", "-", "9", "]">>
    THEN <<[op |-> "digit", c |-> ""]>> \o regexpCompileFrom(expr, i + 5)
    ELSE IF expr[i] = "."
    THEN <<[op |-> "any", c |-> ""]>> \o regexpCompileFrom(expr, i + 1)
    ELSE <<[op |-> "char", c |-> expr[i]]>> \o regexpCompileFrom(expr, i + 1)

regexpCompile(expr) == regexpCompileFrom(expr, 1)

\* how many digits the text has from position pos on
RECURSIVE digitRun(_, _)
digitRun(text, pos) ==
    IF pos <= Len(text) /\ IsDigit(text[pos]) THEN 1 + digitRun(text, pos + 1)
    ELSE 0

\* the position after the match of prog from instruction t on against text
\* from position pos on, 0 when there is none; "[0-9]*" takes the longest
\* run of digits with which the rest matches
RECURSIVE matchEnd(_, _, _, _)
RECURSIVE digitsEnd(_, _, _, _, _)
digitsTried(prog, t, text, pos, q, end) ==
    IF end # 0 THEN end
    ELSE IF q = pos THEN 0
    ELSE digitsEnd(prog, t, text, pos, q - 1)

digitsEnd(prog, t, text, pos, q) ==
    digitsTried(prog, t, text, pos, q, matchEnd(prog, t + 1, text, q))

matchEnd(prog, t, text, pos) ==
    IF t > Len(prog) THEN pos
    ELSE IF prog[t].op = "digits"
    THEN digitsEnd(prog, t, text, pos, pos + digitRun(text, pos))
    ELSE IF pos > Len(text) THEN 0
    ELSE IF prog[t].op = "char" /\ text[pos] # prog[t].c THEN 0
    ELSE IF prog[t].op = "digit" /\ ~IsDigit(text[pos]) THEN 0
    ELSE IF prog[t].op = "any" /\ text[pos] = "\n" THEN 0
    ELSE matchEnd(prog, t + 1, text, pos + 1)

\* Regexp.ReplaceAll from position pos of src on: the leftmost match is
\* replaced and the search goes on after it (no match here is empty, and
\* repl has no "$")
RECURSIVE replaceAllFrom(_, _, _, _)
replaceAllAt(prog, src, repl, pos, end) ==
    IF end = 0 \/ end = pos
    THEN <<src[pos]>> \o replaceAllFrom(prog, src, repl, pos + 1)
    ELSE repl \o replaceAllFrom(prog, src, repl, end)

replaceAllFrom(prog, src, repl, pos) ==
    IF pos > Len(src) THEN <<>>
    ELSE replaceAllAt(prog, src, repl, pos, matchEnd(prog, 1, src, pos))

ReplaceAll(prog, src, repl) == replaceAllFrom(prog, src, repl, 1)

\* the loop of updateGoModVersions over newModPaths from index i on
RECURSIVE replaceVersionsFrom(_, _, _, _)
replaceVersionsFrom(newVersion, newModPaths, newGoModFile, i) ==
    IF i > Len(newModPaths) THEN newGoModFile
    ELSE replaceVersionsFrom(
             newVersion, newModPaths,
             ReplaceAll(
                 regexpCompile(filePathToRegex(ModulePathBytes(newModPaths[i]))
                               \o OldVersionPattern),
                 newGoModFile,
                 ModulePathBytes(newModPaths[i]) \o <<" ">> \o newVersion),
             i + 1)

\* ioutil.WriteFile: a file that is not writable stays as it is
WriteFile(tree, path, data) ==
    IF tree[path].writable THEN [tree EXCEPT ![path].text = data] ELSE tree

\* updateGoModVersions on the files tree: the files after it; the error of
\* ioutil.WriteFile is not looked at, and the function returns nil
updateGoModVersions(newVersion, newModPaths, modFilePath, tree) ==
    WriteFile(tree, modFilePath,
              replaceVersionsFrom(newVersion, newModPaths,
                                  tree[modFilePath].text, 1))


\* versions the require directives carry before the rewrite: one digit in
\* every place, two digits in the last, a pre-release
PriorVersions ==
    {V3("1", "2", "0"), <<"v", "1", ".", "2", ".", "1", "0">>,
     <<"v", "1", ".", "0", ".", "0", "-", "r", "c", ".", "1">>}

\* versions to rewrite to: a release and a pre-release
NewVersions ==
    {V3("1", "3", "0"), <<"v", "1", ".", "3", ".", "0", "-", "r", "c", ".", "1">>}

\* the modules whose versions are rewritten
NewModulePathLists == {<<"otel/api">>, <<"otel/sdk">>, <<"otel/api", "otel/sdk">>}

\* a require directive: the module path and the version, as written
RequireEntries(paths) == [path : paths, version : PriorVersions]

\* the text of a go.mod file: the module line and one require line per entry
RECURSIVE RequireLines(_)
RequireLines(entries) ==
    IF entries = <<>> THEN <<>>
    ELSE <<"r", "e", "q", "u", "i", "r", "e", " ">> \o Head(entries).path \o <<" ">>
         \o Head(entries).version \o <<"\n">> \o RequireLines(Tail(entries))

GoModText(modPath, entries) ==
    <<"m", "o", "d", "u", "l", "e", " ">> \o ModulePathBytes(modPath) \o <<"\n">> \o RequireLines(entries)

\* a go.mod file with its text; writable or read-only
TextGoMod(modPath, entries, writable) ==
    [kind |-> "file", module |-> modPath, require |-> <<>>, parses |-> TRUE,
     text |-> GoModText(modPath, entries), writable |-> writable]

\* the require directives of the go.mod file of a module: none, or one on
\* the other module of the repository or on a module of another repository
\* whose path ends as that one's does
RequiresOf(modPath) ==
    {<<>>} \cup
    {<<e>> : e \in RequireEntries(
                 IF modPath = "otel/api"
                 THEN {<<"o", "t", "e", "l", "/", "s", "d", "k">>, <<"x", "/", "o", "t", "e", "l", "/", "s", "d", "k">>}
                 ELSE {<<"o", "t", "e", "l", "/", "a", "p", "i">>, <<"x", "/", "o", "t", "e", "l", "/", "a", "p", "i">>})}

\* the locals of updateAllGoModFiles; given keeps the require directives the
\* files had when it was called
RewriteCall(newVersion, newModPaths, given) ==
    [fn |-> "updateAllGoModFiles", newVersion |-> newVersion,
     newModPaths |-> newModPaths, given |-> given]

\* updateAllGoModFiles: its first line
UpdateAllGoModFilesEnter ==
    /\ pc = "updateAllGoModFiles"
    /\ out' = Append(out, [line |-> "Updating all module versions in go.mod files..."])
    /\ visited' = {}
    /\ pc' = "updateAllGoModFiles.range"
    /\ UNCHANGED <<versionCfg, fsys, modSetMap, modInfoMap, modPathMap,
                   setMajorVersions, err, fatal>>
    /\ UNCHANGED tagVars

\* updateAllGoModFiles: one iteration of `range modPathMap`, which is one
\* call of updateGoModVersions; it panics on a file it cannot read
UpdateAllGoModFilesIter ==
    /\ pc = "updateAllGoModFiles.range"
    /\ \E modPath \in (DOMAIN modPathMap) \ visited :
         /\ visited' = visited \cup {modPath}
         /\ IF fsys[modPathMap[modPath]].kind # "file"
            THEN /\ pc' = "panic"
                 /\ UNCHANGED fsys
            ELSE /\ fsys' = updateGoModVersions(frame.newVersion, frame.newModPaths,
                                                modPathMap[modPath], fsys)
                 /\ UNCHANGED pc
    /\ UNCHANGED <<versionCfg, modSetMap, modInfoMap, modPathMap,
                   setMajorVersions, err, fatal, out>>
    /\ UNCHANGED tagVars

\* updateAllGoModFiles: return nil
UpdateAllGoModFilesReturn ==
    /\ pc = "updateAllGoModFiles.range"
    /\ visited = DOMAIN modPathMap
    /\ pc' = "updateAllGoModFiles.return"
    /\ UNCHANGED <<versionCfg, fsys, modSetMap, modInfoMap, modPathMap, visited,
                   setMajorVersions, err, fatal, out>>
    /\ UNCHANGED tagVars

\* updateAllGoModFiles on a repository of two modules
InitRewrite ==
    /\ modPathMap = [m \in {"otel/api", "otel/sdk"} |-> GoModOf(m)]
    /\ \E given \in [Range(modPathMap) -> RequiresOf("otel/api") \cup RequiresOf("otel/sdk")] :
         /\ \A m \in DOMAIN modPathMap : given[modPathMap[m]] \in RequiresOf(m)
         /\ \E writable \in [Range(modPathMap) -> BOOLEAN] :
              fsys = [p \in GoModPaths |->
                         IF p \in Range(modPathMap)
                         THEN TextGoMod(CHOOSE m \in DOMAIN modPathMap :
                                            modPathMap[m] = p,
                                        given[p], writable[p])
                         ELSE NoFile]
         /\ \E newVersion \in NewVersions : \E newModPaths \in NewModulePathLists :
              frame = RewriteCall(newVersion, newModPaths, given)
    /\ versionCfg = UnreadableConfig
    /\ pc = "updateAllGoModFiles"
    /\ tagCfg = NoTagConfig
    /\ gitTags = EmptyMap
    /\ gitLog = <<>>
    /\ modSetMap = EmptyMap
    /\ modInfoMap = EmptyMap
    /\ visited = {}
    /\ setMajorVersions = EmptyMap
    /\ err = NoError
    /\ fatal = ""
    /\ out = <<>>

NextRewrite ==
    \/ UpdateAllGoModFilesEnter
    \/ UpdateAllGoModFilesIter
    \/ UpdateAllGoModFilesReturn

SpecRewrite == InitRewrite /\ [][NextRewrite]_vars

\* the locals of two calls of updateGoModVersions on one file; once keeps
\* the content of the file after the first
RewriteTwiceCall(newVersion, newModPaths, modFilePath) ==
    [fn |-> "updateGoModVersions", newVersion |-> newVersion,
     newModPaths |-> newModPaths, modFilePath |-> modFilePath, once |-> <<>>]

\* updateGoModVersions, called for the first time
UpdateGoModVersionsOnce ==
    /\ pc = "updateGoModVersions"
    /\ fsys' = updateGoModVersions(frame.newVersion, frame.newModPaths,
                                   frame.modFilePath, fsys)
    /\ frame' = [frame EXCEPT !.once = fsys'[frame.modFilePath].text]
    /\ pc' = "updateGoModVersions.once"
    /\ UNCHANGED <<versionCfg, modSetMap, modPathMap, err, fatal, out,
                   tagCfg, gitTags, gitLog>>
    /\ UNCHANGED verifyLocals

\* updateGoModVersions, called again with the same arguments
UpdateGoModVersionsAgain ==
    /\ pc = "updateGoModVersions.once"
    /\ fsys' = updateGoModVersions(frame.newVersion, frame.newModPaths,
                                   frame.modFilePath, fsys)
    /\ pc' = "updateGoModVersions.twice"
    /\ UNCHANGED <<versionCfg, modSetMap, modPathMap, err, fatal, out,
                   tagCfg, gitTags, gitLog, frame>>
    /\ UNCHANGED verifyLocals

\* updateGoModVersions on the go.mod file of a module
InitRewriteTwice ==
    /\ \E modPath \in {"otel/api", "otel/sdk"} :
         \E entries \in RequiresOf(modPath) :
           \E newVersion \in NewVersions : \E newModPaths \in NewModulePathLists :
             /\ fsys = [p \in GoModPaths |->
                           IF p = GoModOf(modPath)
                           THEN TextGoMod(modPath, entries, TRUE)
                           ELSE NoFile]
             /\ frame = RewriteTwiceCall(newVersion, newModPaths, GoModOf(modPath))
    /\ versionCfg = UnreadableConfig
    /\ pc = "updateGoModVersions"
    /\ tagCfg = NoTagConfig
    /\ gitTags = EmptyMap
    /\ gitLog = <<>>
    /\ modSetMap = EmptyMap
    /\ modInfoMap = EmptyMap
    /\ modPathMap = EmptyMap
    /\ visited = {}
    /\ setMajorVersions = EmptyMap
    /\ err = NoError
    /\ fatal = ""
    /\ out = <<>>

NextRewriteTwice == UpdateGoModVersionsOnce \/ UpdateGoModVersionsAgain

SpecRewriteTwice == InitRewriteTwice /\ [][NextRewriteTwice]_vars

\* the prerelease command (prereleaseCmd.Run).  tagCfg holds its flags:
\* ModuleSet, FromExistingBranch (the current branch when the flag is not
\* given) and SkipMake.  gitLog has the commands it has run, git and make.

\* the branch the repository is on when the command starts
CurrentBranch == "main"

\* a command that was run: what, on which tag or from which branch, and
\* whether it succeeded
Command(cmd, tag, commit, ok) == [cmd |-> cmd, tag |-> tag, commit |-> commit, ok |-> ok]

\* the locals of Run; head keeps the go.mod files as the current commit has
\* them
PrereleaseFrame(newVersion, newModPaths, newModTagNames, head) ==
    [fn |-> "prerelease.Run", newVersion |-> newVersion,
     newModPaths |-> newModPaths, newModTagNames |-> newModTagNames,
     i |-> 1, head |-> head]

\* the errors of the steps of Run
TagListError(tag) == [kind |-> "GitTagList", tag |-> tag]

TagExistsError(tag) == [kind |-> "GitTagExists", tag |-> tag]

CommandError(cmd) == [kind |-> "Command", cmd |-> cmd]

\* Run: tools.FindRepoRoot, os.Chdir, tools.VersionsAndModulesToUpdate
PrereleaseVersionsAndModulesToUpdate ==
    /\ pc = "prerelease.Run"
    /\ LET r == VersionsAndModulesToUpdate(versionCfg, tagCfg.ModuleSet, fsys) IN
       /\ modSetMap' = r.modSetsMap
       /\ modPathMap' = r.modPathMap
       /\ IF r.err.kind # "nil"
          THEN /\ Fatal("unable to get modules to update", r.err)
               /\ out' = Append(out, [line |-> "Changing to root directory..."])
               /\ UNCHANGED frame
          ELSE /\ pc' = "verifyGitTagsDoNotAlreadyExist"
               /\ frame' = PrereleaseFrame(r.newVersion, r.modPaths, r.modTagNames, fsys)
               /\ out' = out \o <<[line |-> "Changing to root directory..."],
                                  [line |-> "Checking for tags"]>>
               /\ UNCHANGED <<fatal, err>>
    /\ UNCHANGED <<versionCfg, fsys, tagCfg, gitTags, gitLog>>
    /\ UNCHANGED verifyLocals

\* verifyGitTagsDoNotAlreadyExist: one iteration of the loop over
\* modFullTags, `git tag -l` on one full tag
VerifyGitTagsDoNotAlreadyExistIter ==
    /\ pc = "verifyGitTagsDoNotAlreadyExist"
    /\ LET modFullTags == CombineModuleTagNamesAndVersion(frame.newModTagNames,
                                                          frame.newVersion) IN
       /\ frame.i <= Len(modFullTags)
       /\ \E ok \in BOOLEAN :
            /\ gitLog' = Append(gitLog, Command("tag -l", modFullTags[frame.i], "", ok))
            /\ IF ~ok
               THEN /\ Fatal("verifyGitTagsDoNotAlreadyExist failed",
                             TagListError(modFullTags[frame.i]))
                    /\ UNCHANGED frame
               ELSE IF modFullTags[frame.i] \in DOMAIN gitTags
               THEN /\ Fatal("verifyGitTagsDoNotAlreadyExist failed",
                             TagExistsError(modFullTags[frame.i]))
                    /\ UNCHANGED frame
               ELSE /\ frame' = [frame EXCEPT !.i = frame.i + 1]
                    /\ UNCHANGED <<pc, fatal, err>>
    /\ UNCHANGED <<versionCfg, fsys, modSetMap, modPathMap, out, tagCfg, gitTags>>
    /\ UNCHANGED verifyLocals

\* verifyGitTagsDoNotAlreadyExist: return nil
VerifyGitTagsDoNotAlreadyExistReturn ==
    /\ pc = "verifyGitTagsDoNotAlreadyExist"
    /\ frame.i > Len(CombineModuleTagNamesAndVersion(frame.newModTagNames,
                                                     frame.newVersion))
    /\ pc' = "verifyWorkingTreeClean"
    /\ UNCHANGED <<versionCfg, fsys, modSetMap, modPathMap, err, fatal, out,
                   tagCfg, gitTags, gitLog, frame>>
    /\ UNCHANGED verifyLocals

\* a variant that goes on when the working tree is not clean
VerifyWorkingTreeCleanIgnored ==
    /\ pc = "verifyWorkingTreeClean"
    /\ \E ok \in BOOLEAN :
         gitLog' = Append(gitLog, Command("diff --exit-code", <<>>, "", ok))
    /\ pc' = "createPrereleaseBranch"
    /\ UNCHANGED <<versionCfg, fsys, modSetMap, modPathMap, err, fatal, out,
                   tagCfg, gitTags, frame>>
    /\ UNCHANGED verifyLocals

\* verifyWorkingTreeClean: `git diff --exit-code`
VerifyWorkingTreeClean ==
    /\ pc = "verifyWorkingTreeClean"
    /\ \E ok \in BOOLEAN :
         /\ gitLog' = Append(gitLog, Command("diff --exit-code", <<>>, "", ok))
         /\ IF ok
            THEN /\ pc' = "createPrereleaseBranch"
                 /\ UNCHANGED <<fatal, err>>
            ELSE Fatal("verifyWorkingTreeClean failed", CommandError("git diff"))
    /\ UNCHANGED <<versionCfg, fsys, modSetMap, modPathMap, out, tagCfg,
                   gitTags, frame>>
    /\ UNCHANGED verifyLocals

\* createPrereleaseBranch: `git checkout -b <branch> <fromExistingBranch>`.
\* Checked out from another branch, the working tree is that branch's: the
\* versioning file is as before or is one that cannot be read.
CreatePrereleaseBranch ==
    /\ pc = "createPrereleaseBranch"
    /\ out' = Append(out, [line |-> "git checkout -b"])
    /\ \E ok \in BOOLEAN :
         /\ gitLog' = Append(gitLog, Command("checkout -b", <<>>,
                                             tagCfg.FromExistingBranch, ok))
         /\ IF ok
            THEN /\ pc' = "prerelease.BuildModulePathMap"
                 /\ versionCfg' \in
                        IF tagCfg.FromExistingBranch = CurrentBranch
                        THEN {versionCfg}
                        ELSE {versionCfg, UnreadableConfig}
                 /\ UNCHANGED <<fatal, err>>
            ELSE /\ Fatal("createPrereleaseBranch failed",
                          CommandError("git checkout"))
                 /\ UNCHANGED versionCfg
    /\ UNCHANGED <<fsys, modSetMap, modPathMap, tagCfg, gitTags, frame>>
    /\ UNCHANGED verifyLocals

\* Run: tools.BuildModulePathMap, whose error is not looked at, and
\* updateVersionGo, which returns nil
PrereleaseBuildModulePathMap ==
    /\ pc = "prerelease.BuildModulePathMap"
    /\ LET r == BuildModulePathMap(versionCfg, fsys) IN
       /\ modPathMap' = r.modPathMap
       /\ out' = out \o r.warnings
    /\ err' = NoError
    /\ pc' = "updateAllGoModFiles"
    /\ UNCHANGED <<versionCfg, fsys, modSetMap, fatal, tagCfg, gitTags, gitLog,
                   frame>>
    /\ UNCHANGED verifyLocals

\* Run: runMakeLint (`make lint`) unless skipMake
PrereleaseRunMakeLint ==
    /\ pc = "updateAllGoModFiles.return"
    /\ IF tagCfg.SkipMake
       THEN /\ out' = Append(out, [line |-> "Skipping 'make lint'..."])
            /\ pc' = "commitChanges"
            /\ UNCHANGED <<gitLog, fatal, err>>
       ELSE /\ out' = Append(out, [line |-> "Updating go.sum with 'make lint'..."])
            /\ \E ok \in BOOLEAN :
                 /\ gitLog' = Append(gitLog, Command("make lint", <<>>, "", ok))
                 /\ IF ok
                    THEN /\ pc' = "commitChanges"
                         /\ UNCHANGED <<fatal, err>>
                    ELSE Fatal("runMakeLint failed", CommandError("make lint"))
    /\ UNCHANGED <<versionCfg, fsys, modSetMap, modPathMap, tagCfg, gitTags, frame>>
    /\ UNCHANGED verifyLocals

\* commitChanges: `git add .`
CommitChangesAdd ==
    /\ pc = "commitChanges"
    /\ \E ok \in BOOLEAN :
         /\ gitLog' = Append(gitLog, Command("add .", <<>>, "", ok))
         /\ IF ok
            THEN /\ pc' = "commitChanges.ci"
                 /\ UNCHANGED <<fatal, err>>
            ELSE Fatal("commitChanges failed", CommandError("git add"))
    /\ UNCHANGED <<versionCfg, fsys, modSetMap, modPathMap, out, tagCfg,
                   gitTags, frame>>
    /\ UNCHANGED verifyLocals

\* commitChanges: `make ci` unless skipMake
CommitChangesMakeCi ==
    /\ pc = "commitChanges.ci"
    /\ IF tagCfg.SkipMake
       THEN /\ out' = Append(out, [line |-> "Skipping 'make ci'..."])
            /\ pc' = "commitChanges.commit"
            /\ UNCHANGED <<gitLog, fatal, err>>
       ELSE /\ out' = Append(out, [line |-> "Running 'make ci'..."])
            /\ \E ok \in BOOLEAN :
                 /\ gitLog' = Append(gitLog, Command("make ci", <<>>, "", ok))
                 /\ IF ok
                    THEN /\ pc' = "commitChanges.commit"
                         /\ UNCHANGED <<fatal, err>>
                    ELSE Fatal("commitChanges failed", CommandError("make ci"))
    /\ UNCHANGED <<versionCfg, fsys, modSetMap, modPathMap, tagCfg, gitTags, frame>>
    /\ UNCHANGED verifyLocals

\* the outcomes of `git commit`: it fails when nothing has changed
GitCommitOutcomes == IF fsys = frame.head THEN {FALSE} ELSE BOOLEAN

\* commitChanges: `git commit -m`; then Run prints that it has finished
CommitChangesCommit ==
    /\ pc = "commitChanges.commit"
    /\ \E ok \in GitCommitOutcomes :
         /\ gitLog' = Append(gitLog, Command("commit -m", <<>>, "", ok))
         /\ IF ok
            THEN /\ pc' = "exit0"
                 /\ out' = out \o <<[line |-> "Commit changes to git"],
                                    [line |-> "Prerelease finished successfully."]>>
                 /\ UNCHANGED <<fatal, err>>
            ELSE /\ Fatal("commitChanges failed", CommandError("git commit"))
                 /\ out' = Append(out, [line |-> "Commit changes to git"])
    /\ UNCHANGED <<versionCfg, fsys, modSetMap, modPathMap, tagCfg, gitTags, frame>>
    /\ UNCHANGED verifyLocals

\* the module lists of the set the prerelease command is run on
PrereleaseModuleLists ==
    {<<"otel/api">>, <<"otel/api", "otel/sdk">>, <<RootModule, "otel/api">>}

\* versioning files with the set stable-core at v1.3.0, or with no set
PrereleaseConfigs ==
    VersionConfigs({"stable-core"}, {V3("1", "3", "0")}, PrereleaseModuleLists, {})
    \cup {UnreadableConfig}

\* the require directive of otel/sdk on otel/api
SdkRequires == <<[path |-> ModulePathBytes("otel/api"), version |-> V3("1", "2", "0")]>>

\* repositories with the go.mod files of otel/api, which can be written or
\* not, of otel/sdk, which can be written, cannot, or is missing, and of the
\* root module, which is there or not
PrereleaseTrees ==
    { [p \in GoModPaths |->
          CASE p = "/repo/api/go.mod" -> TextGoMod("otel/api", <<>>, apiWritable)
            [] p = "/repo/sdk/go.mod" ->
                   IF sdk = "none" THEN NoFile
                   ELSE TextGoMod("otel/sdk", SdkRequires, sdk = "writable")
            [] p = "/repo/go.mod" ->
                   IF root THEN TextGoMod(RootModule, SdkRequires, TRUE) ELSE NoFile
            [] OTHER -> NoFile] :
      apiWritable \in BOOLEAN, sdk \in {"none", "writable", "read-only"},
      root \in BOOLEAN }

\* command lines: the set of the versioning file or one it does not have,
\* the branch to start from, with or without the make steps
PrereleaseCommandLines ==
    [ModuleSet : {"stable-core", "contrib"},
     FromExistingBranch : {CurrentBranch, "release"},
     SkipMake : BOOLEAN]

\* the tags of the repository before the command runs: none, or tags of the
\* set at v1.3.0
PrereleaseRepositories ==
    { [t \in Range(SubSeq(<<<<"s", "d", "k", "/", "v", "1", ".", "3", ".", "0">>, <<"v", "1", ".", "3", ".", "0">>>>, 1, k)) |-> "0a1b2c3d4e5f"] :
      k \in 0..2 }

\* the prerelease command on a versioning file, a repository and a command
\* line
InitPrerelease ==
    /\ versionCfg \in PrereleaseConfigs
    /\ fsys \in PrereleaseTrees
    /\ tagCfg \in PrereleaseCommandLines
    /\ gitTags \in PrereleaseRepositories
    /\ gitLog = <<>>
    /\ frame = NoFrame
    /\ pc = "prerelease.Run"
    /\ modSetMap = EmptyMap
    /\ modInfoMap = EmptyMap
    /\ modPathMap = EmptyMap
    /\ visited = {}
    /\ setMajorVersions = EmptyMap
    /\ err = NoError
    /\ fatal = ""
    /\ out = <<>>

NextPrerelease ==
    \/ PrereleaseVersionsAndModulesToUpdate
    \/ VerifyGitTagsDoNotAlreadyExistIter
    \/ VerifyGitTagsDoNotAlreadyExistReturn
    \/ VerifyWorkingTreeClean
    \/ CreatePrereleaseBranch
    \/ PrereleaseBuildModulePathMap
    \/ UpdateAllGoModFilesEnter
    \/ UpdateAllGoModFilesIter
    \/ UpdateAllGoModFilesReturn
    \/ PrereleaseRunMakeLint
    \/ CommitChangesAdd
    \/ CommitChangesMakeCi
    \/ CommitChangesCommit

SpecPrerelease == InitPrerelease /\ [][NextPrerelease]_vars

-----------------------------------------------------------------------------
(* The terms of the properties, stated on the inputs and not through the   *)
(* operators of the code                                                   *)

DigitValue(c) == CHOOSE n \in 0..9 : Digits[n + 1] = c

\* the number a run of decimal digits writes
RECURSIVE DecimalValue(_)
DecimalValue(ds) ==
    IF ds = <<>> THEN 0
    ELSE 10 * DecimalValue(SubSeq(ds, 1, Len(ds) - 1)) + DigitValue(ds[Len(ds)])

\* where the major component of "vMAJOR[.MINOR[.PATCH]]" ends
FirstDot(v) ==
    IF \E k \in 1..Len(v) : v[k] = "."
    THEN CHOOSE k \in 1..Len(v) : v[k] = "." /\ \A j \in 1..(k - 1) : v[j] # "."
    ELSE Len(v) + 1

\* the major version number of a valid semantic version
MajorNumber(v) == DecimalValue(SubSeq(v, 2, FirstDot(v) - 1))

\* a version is stable when it is valid and its major version is 1 or more
StableVersion(v) == semverIsValid(v) /\ MajorNumber(v) >= 1

InvalidSet(s) == ~semverIsValid(modSetMap[s].Version)

\* two distinct module sets, both stable, with the same major version
StableCollision(a, b) ==
    /\ a # b
    /\ StableVersion(modSetMap[a].Version)
    /\ StableVersion(modSetMap[b].Version)
    /\ MajorNumber(modSetMap[a].Version) = MajorNumber(modSetMap[b].Version)

SomeInvalidSet == \E s \in DOMAIN modSetMap : InvalidSet(s)

SomeStableCollision == \E a, b \in DOMAIN modSetMap : StableCollision(a, b)

\* the error names a set of modSetMap whose version is invalid, with that version
InvalidVersionReported ==
    /\ err.kind = "InvalidVersion"
    /\ err.setName \in DOMAIN modSetMap
    /\ InvalidSet(err.setName)
    /\ err.version = modSetMap[err.setName].Version

\* the error names two distinct stable sets of modSetMap, their versions and
\* the major version they share
CollisionReported ==
    /\ err.kind = "MajorVersionCollision"
    /\ err.prevSetName \in DOMAIN modSetMap
    /\ err.setName \in DOMAIN modSetMap
    /\ StableCollision(err.prevSetName, err.setName)
    /\ err.prevVersion = modSetMap[err.prevSetName].Version
    /\ err.version = modSetMap[err.setName].Version
    /\ Head(err.major) = "v"
    /\ DecimalValue(Tail(err.major)) = MajorNumber(err.version)

-----------------------------------------------------------------------------
(* verifyAllModulesInSet (SpecMembers) *)

\* C1: verifyAllModulesInSet returns success if and only if the key set of
\* the module path map equals the key set of the module info map, whatever
\* order the two maps are ranged over: when it has returned nil the key sets
\* are equal, and when it has returned an error they differ.
C1_SuccessIffSameKeys ==
    /\ pc = "verifyVersions" =>
         /\ DOMAIN modPathMap = DOMAIN modInfoMap
         /\ out = <<PassAllModules>>
    /\ pc = "fatal" =>
         /\ fatal = "verifyAllModulesInSet failed"
         /\ DOMAIN modPathMap # DOMAIN modInfoMap
         /\ err.kind = "NotInAnySet" =>
              err.modPath \in (DOMAIN modPathMap) \ (DOMAIN modInfoMap)
         /\ err.kind = "NotInRepo" =>
              err.modPath \in (DOMAIN modInfoMap) \ (DOMAIN modPathMap)

\* verifyAllModulesInSet has returned nil on two maps with the same two or
\* more keys
C1_Witness ==
    /\ pc = "verifyVersions"
    /\ DOMAIN modPathMap = DOMAIN modInfoMap
    /\ Cardinality(DOMAIN modInfoMap) >= 2

-----------------------------------------------------------------------------
(* verifyVersions (SpecVersions) *)

\* C2: when every set's version is a valid semantic version, verifyVersions
\* fails with the major-version-collision error if and only if two distinct
\* sets are both stable and have the same major version; sets of major
\* version 0 never collide; the error names two distinct sets that both have
\* the major version it reports.
C2_CollisionIffSameStableMajor ==
    ~SomeInvalidSet =>
        /\ pc = "verifyDependencies" => ~SomeStableCollision
        /\ pc = "fatal" =>
             /\ fatal = "verifyVersions failed"
             /\ CollisionReported
             /\ MajorNumber(err.version) >= 1

\* verifyVersions has reported a collision among three sets with valid versions
C2_Witness ==
    /\ pc = "fatal"
    /\ err.kind = "MajorVersionCollision"
    /\ ~SomeInvalidSet
    /\ Cardinality(DOMAIN modSetMap) = 3

\* C3: whether verifyVersions passes or fails does not depend on the order
\* in which the sets are visited: on a given module set map it fails in every
\* order (when some version is invalid or two stable sets share a major
\* version) or passes in every order (otherwise).
C3_OutcomeIndependentOfOrder ==
    /\ pc = "verifyDependencies" => ~(SomeInvalidSet \/ SomeStableCollision)
    /\ pc = "fatal" => (SomeInvalidSet \/ SomeStableCollision)

\* verifyVersions has failed on a map on which the kind of the error depends
\* on the order: it reported a collision, and another set has an invalid version
C3_Witness ==
    /\ pc = "fatal"
    /\ err.kind = "MajorVersionCollision"
    /\ SomeInvalidSet

\* C4 as stated: if some set's version is not a valid semantic version,
\* verifyVersions fails with an invalid-version error that names a set with
\* an invalid version and that version string.
C4_InvalidVersionAlwaysReported ==
    SomeInvalidSet =>
        /\ pc # "verifyDependencies"
        /\ pc = "fatal" => InvalidVersionReported

\* C4: if some set's version is not a valid semantic version, verifyVersions
\* fails; its error is the invalid-version error naming a set with an invalid
\* version and that version string, or, when two stable sets with the same
\* major version were visited before any invalid one, the collision error
\* for those two sets.
C4_InvalidVersionOrEarlierCollision ==
    SomeInvalidSet =>
        /\ pc # "verifyDependencies"
        /\ pc = "fatal" =>
             /\ fatal = "verifyVersions failed"
             /\ InvalidVersionReported \/ CollisionReported
             /\ ~SomeStableCollision => InvalidVersionReported

\* verifyVersions has reported an invalid version on a map that also holds
\* two stable sets with the same major version
C4_Witness ==
    /\ pc = "fatal"
    /\ InvalidVersionReported
    /\ SomeStableCollision

-----------------------------------------------------------------------------
(* verifyDependencies (SpecDeps) *)

\* the module's go.mod file was discovered and is a file
HasGoMod(m) == m \in DOMAIN modPathMap /\ fsys[modPathMap[m]].kind = "file"

\* the module's go.mod file does not parse as a whole
MalformedGoMod(m) == HasGoMod(m) /\ ~fsys[modPathMap[m]].parses

\* the module paths the require directives of the module's go.mod file name
RequiredBy(m) ==
    IF HasGoMod(m) /\ fsys[modPathMap[m]].parses
    THEN Range(fsys[modPathMap[m]].require)
    ELSE {}

SomeMalformedStableModule ==
    \E m \in DOMAIN modInfoMap :
        StableVersion(modInfoMap[m].Version) /\ MalformedGoMod(m)

\* the pairs (m, d): m stable, d required by m, d in modInfoMap, d not stable
UnstableDependencies ==
    { md \in (DOMAIN modInfoMap) \X (DOMAIN modInfoMap) :
        /\ StableVersion(modInfoMap[md[1]].Version)
        /\ md[2] \in RequiredBy(md[1])
        /\ ~StableVersion(modInfoMap[md[2]].Version) }

WarningLines == {i \in DOMAIN out : out[i].line = Warning("", "", "", "").line}

\* the pairs (module, dependency) of the warnings printed so far
WarnedPairs == {<<out[i].mod, out[i].dep>> : i \in WarningLines}

\* C5 as stated: verifyDependencies never returns an error.
C5_NeverFails == pc # "fatal"

\* C5: verifyDependencies returns an error exactly when the go.mod file of
\* some stable module of the module info map does not parse (the error is
\* the one of modfile.Parse); otherwise it returns success, whatever stable
\* module depends on whatever unstable module.
C5_FailsOnlyOnMalformedGoMod ==
    /\ pc = "fatal" =>
         /\ fatal = "verifyDependencies failed"
         /\ err.kind = "Parse"
         /\ SomeMalformedStableModule
    /\ pc = "exit0" => ~SomeMalformedStableModule

\* verifyDependencies has returned success although a stable module depends
\* on an unstable one
C5_Witness ==
    /\ pc = "exit0"
    /\ UnstableDependencies # {}
    /\ WarningLines # {}

\* C6 as stated: when verifyDependencies has ended, the warnings it printed
\* are for exactly the pairs (m, d) with m stable, d required by m, d a key
\* of the module info map and d not stable.
C6_WarnsForExactlyUnstableDependencies ==
    pc \in {"exit0", "fatal"} => WarnedPairs = UnstableDependencies

\* C6: when verifyDependencies returns success, the warnings it printed are
\* for exactly the pairs (m, d) with m stable, d required by m's go.mod file,
\* d a key of the module info map and d not stable, each with the versions of
\* m and d; when it returns an error (a stable module's go.mod file does not
\* parse), the warnings printed until then are for some of these pairs.
C6_WarnsForExactlyUnstableDependenciesOnSuccess ==
    /\ pc = "exit0" => WarnedPairs = UnstableDependencies
    /\ WarnedPairs \subseteq UnstableDependencies
    /\ \A i \in WarningLines :
         /\ out[i].modVersion = modInfoMap[out[i].mod].Version
         /\ out[i].depVersion = modInfoMap[out[i].dep].Version

\* verifyDependencies has returned success after a warning, on a map where
\* another stable module requires a module no set lists
C6_Witness ==
    /\ pc = "exit0"
    /\ WarnedPairs # {}
    /\ \E m \in DOMAIN modInfoMap :
         /\ StableVersion(modInfoMap[m].Version)
         /\ ExternalPath \in RequiredBy(m)

-----------------------------------------------------------------------------
(* The verify command (Spec) *)

\* how far the command has come: building the maps, then the three checks
Stage(at) ==
    CASE at = "Run" -> 0
      [] at \in {"BuildModuleMap", "BuildModuleMap.range"} -> 1
      [] at = "BuildModulePathMap" -> 2
      [] at \in {"verifyAllModulesInSet", "verifyAllModulesInSet.info"} -> 3
      [] at = "verifyVersions" -> 4
      [] at = "verifyDependencies" -> 5
      [] at \in {"exit0", "fatal"} -> 6

Printed(l) == \E i \in DOMAIN out : out[i] = l

\* what has been printed and held at each position of the command
VerifyRunState ==
    /\ Stage(pc) <= 3 => out = <<>>
    /\ pc = "verifyVersions" => out = <<PassAllModules>>
    /\ pc = "verifyDependencies" =>
         /\ Len(out) >= 2
         /\ out[1] = PassAllModules
         /\ out[2] = PassVersions
         /\ \A i \in 3..Len(out) : i \in WarningLines
    /\ pc = "fatal" /\ fatal = "verifyAllModulesInSet failed" => out = <<>>
    /\ pc = "fatal" /\ fatal = "verifyVersions failed" => out = <<PassAllModules>>
    /\ pc = "fatal" =>
         /\ ~Printed(PassVerify)
         /\ ~Printed(FinishedDependencies)
         /\ fatal # ""
         /\ err # NoError
    /\ pc # "fatal" => fatal = "" /\ err = NoError
    /\ Printed(PassVerify) => pc = "exit0"
    /\ pc = "exit0" =>
         /\ out[1] = PassAllModules
         /\ out[2] = PassVersions
         /\ out[Len(out)] = PassVerify
         /\ DOMAIN modPathMap = DOMAIN modInfoMap
         /\ ~(SomeInvalidSet \/ SomeStableCollision)

\* every step goes on within a check, on to the next one, or to the fatal
\* exit; nothing follows an exit
VerifyRunStep ==
    /\ pc \notin {"fatal", "exit0"}
    /\ \/ Stage(pc') = Stage(pc)
       \/ Stage(pc') = Stage(pc) + 1
       \/ pc' = "fatal"

\* C7: the verify command runs the membership check, then the version check,
\* then the dependency check; the first check that fails ends the run with a
\* fatal (nonzero) exit before any later check starts; the final PASS line is
\* printed, and the command exits 0, only after the membership check and the
\* version check have both passed.
C7_ChecksInOrderFailFast == []VerifyRunState /\ [][VerifyRunStep]_vars

\* the command has exited 0 with the final PASS line after printing a warning
C7_Witness ==
    /\ pc = "exit0"
    /\ Printed(PassVerify)
    /\ WarningLines # {}
    /\ Cardinality(DOMAIN modSetMap) = 2

-----------------------------------------------------------------------------
(* BuildModuleMap (SpecBuild) *)

ManifestSets == DOMAIN versionCfg.ModuleSets

\* the module paths a set lists
ListedIn(s) == Range(versionCfg.ModuleSets[s].Modules)

\* how many times the list of set s names module m
Occurrences(m, s) ==
    Cardinality({i \in DOMAIN versionCfg.ModuleSets[s].Modules :
                   versionCfg.ModuleSets[s].Modules[i] = m})

InSeveralSets(m) ==
    \E a, b \in ManifestSets : a # b /\ m \in ListedIn(a) /\ m \in ListedIn(b)

SomeModuleInSeveralSets == \E m \in ModulePaths : InSeveralSets(m)

SomeListedModuleExcluded ==
    \E s \in ManifestSets : ListedIn(s) \cap Range(versionCfg.ExcludedModules) # {}

\* BuildModuleMap has returned a map and no error
BuildSucceeded == pc = "BuildModulePathMap"

\* BuildModuleMap has returned an error
BuildFailed == pc = "fatal" /\ fatal = "unable to build module info map"

\* C8 as stated: BuildModuleMap fails whenever a module path is listed by
\* more than one set, in every order, and the error names that module path
\* and the two sets that list it.
C8_DuplicateNamesTwoSets ==
    SomeModuleInSeveralSets =>
        /\ ~BuildSucceeded
        /\ BuildFailed =>
             /\ err.kind = "DuplicateModule"
             /\ err.first # err.second
             /\ err.first \in ManifestSets
             /\ err.second \in ManifestSets
             /\ err.modPath \in ListedIn(err.first) \cap ListedIn(err.second)

\* C8: BuildModuleMap fails whenever a module path is listed by more than
\* one set, in every order.  Its error is the duplicate error, naming a
\* module path and the sets that list it (two different sets, or one set
\* twice when that set's own list repeats the path), or the excluded-module
\* error when a listed module that is excluded is met first.
C8_DuplicateAlwaysFails ==
    SomeModuleInSeveralSets =>
        /\ ~BuildSucceeded
        /\ pc = "fatal" =>
             /\ BuildFailed
             /\ \/ /\ err.kind = "DuplicateModule"
                   /\ err.first \in ManifestSets
                   /\ err.second \in ManifestSets
                   /\ err.modPath \in ListedIn(err.first) \cap ListedIn(err.second)
                   /\ err.first = err.second =>
                        Occurrences(err.modPath, err.first) >= 2
                \/ /\ err.kind = "ExcludedModule"
                   /\ SomeListedModuleExcluded
             /\ ~SomeListedModuleExcluded => err.kind = "DuplicateModule"

\* BuildModuleMap has reported a module listed by two different sets
C8_Witness ==
    /\ BuildFailed
    /\ err.kind = "DuplicateModule"
    /\ err.first # err.second
    /\ InSeveralSets(err.modPath)

\* C9: BuildModuleMap fails whenever a module listed by some set is also one
\* of the excluded modules, and then it returns no module info map.
C9_ExcludedModuleFails ==
    SomeListedModuleExcluded =>
        /\ ~BuildSucceeded
        /\ pc = "fatal" => BuildFailed /\ modInfoMap = NilMap

\* BuildModuleMap has reported an excluded module of a manifest with two sets
C9_Witness ==
    /\ BuildFailed
    /\ err.kind = "ExcludedModule"
    /\ SomeListedModuleExcluded
    /\ Cardinality(ManifestSets) = 2
    /\ modInfoMap = NilMap

\* C10: when BuildModuleMap succeeds, the map it returns is the inversion of
\* the module set map: its keys are the module paths the sets list, and each
\* module listed by a set maps to that set's name and that set's version.
C10_ExactInversion ==
    BuildSucceeded =>
        /\ DOMAIN modInfoMap = UNION {ListedIn(s) : s \in ManifestSets}
        /\ \A s \in ManifestSets : \A m \in ListedIn(s) :
             /\ modInfoMap[m].ModuleSetName = s
             /\ modInfoMap[m].Version = versionCfg.ModuleSets[s].Version
        /\ \A m \in DOMAIN modInfoMap :
             DOMAIN modInfoMap[m] = {"ModuleSetName", "Version"}

\* BuildModuleMap has returned the map of two sets with different versions
\* that list three modules
C10_Witness ==
    /\ BuildSucceeded
    /\ Cardinality(DOMAIN modInfoMap) = 3
    /\ \E a, b \in ManifestSets :
         /\ ListedIn(a) # {}
         /\ ListedIn(b) # {}
         /\ versionCfg.ModuleSets[a].Version # versionCfg.ModuleSets[b].Version

-----------------------------------------------------------------------------
(* BuildModulePathMap and excluded modules (Spec) *)

\* the excluded modules of the manifest
ExcludedInManifest == Range(versionCfg.ExcludedModules)

\* the module paths that go.mod files of the repository declare
DeclaredOnDisk == {fsys[p].module : p \in {q \in GoModPaths : fsys[q].kind = "file"}}

\* BuildModulePathMap has returned a map and no error
PathMapBuilt ==
    \/ Stage(pc) \in 3..5
    \/ pc = "exit0"
    \/ pc = "fatal" /\ fatal \in {"verifyAllModulesInSet failed",
                                  "verifyVersions failed",
                                  "verifyDependencies failed"}

\* C11: no excluded module of the manifest is a key of the map that
\* BuildModulePathMap returns, even when a go.mod file on disk declares it
\* (the keys are the declared modules that are not excluded); so when
\* verifyAllModulesInSet fails, the module its error names is not an excluded
\* one: an excluded module that is in no module set never makes it fail.
C11_ExcludedModulesNotDiscovered ==
    /\ (DOMAIN modPathMap) \cap ExcludedInManifest = {}
    /\ PathMapBuilt => DOMAIN modPathMap = DeclaredOnDisk \ ExcludedInManifest
    /\ pc = "fatal" /\ fatal = "verifyAllModulesInSet failed" =>
         /\ err.modPath \notin ExcludedInManifest
         /\ DeclaredOnDisk \ ExcludedInManifest # DOMAIN modInfoMap

\* the membership check has passed although a go.mod file on disk declares
\* an excluded module that no set lists
C11_Witness ==
    /\ pc = "verifyVersions"
    /\ \E m \in ExcludedInManifest \cap DeclaredOnDisk : m \notin DOMAIN modInfoMap
    /\ modPathMap # EmptyMap

-----------------------------------------------------------------------------
(* The tag command (SpecTag) *)

\* the directory, below the repository root, of the go.mod file of a module
TagDirOf(m) ==
    CASE m = "otel/api" -> <<"a", "p", "i">>
      [] m = "otel/exp" -> <<"e", "x", "p">>
      [] m = "otel/sdk" -> <<"s", "d", "k">>

\* the tag name of a module: its directory, or that of the repository root
TagNameOf(m) == IF m = RootModule THEN repoRootTag ELSE TagDirOf(m)

\* the modules and the version of the set named on the command line
RequestedModules == versionCfg.ModuleSets[tagCfg.ModuleSet].Modules

RequestedVersion == versionCfg.ModuleSets[tagCfg.ModuleSet].Version

\* the full tags of the set: one per module, in module order; the version
\* for the module at the root of the repository
ExpectedFullTags ==
    [i \in 1..Len(RequestedModules) |->
        IF RequestedModules[i] = RootModule THEN RequestedVersion
        ELSE TagDirOf(RequestedModules[i]) \o <<"/">> \o RequestedVersion]

\* the git commands of one kind among those run so far
LogOf(cmd) == {k \in DOMAIN gitLog : gitLog[k].cmd = cmd}

\* the names of the tags before the commands of log ran, given those after
RECURSIVE TagNamesBefore(_, _)
TagNamesBefore(tags, log) ==
    IF log = <<>> THEN tags
    ELSE TagNamesBefore(
             IF ~log[Len(log)].ok THEN tags
             ELSE IF log[Len(log)].cmd = "tag -a" THEN tags \ {log[Len(log)].tag}
             ELSE tags \cup {log[Len(log)].tag},
             SubSeq(log, 1, Len(log) - 1))

\* the tags the repository had when the command started
TagsAtStart == TagNamesBefore(DOMAIN gitTags, gitLog)

\* the repository has the tags it had when the command started
TagsRestored ==
    \E r \in TagRepositories : DOMAIN r = TagsAtStart /\ gitTags = r

\* tagAllModules has returned an error
TagAllModulesFailed == pc = "fatal" /\ fatal = "unable to tag modules"

\* the tags tagAllModules created before git tag failed
CreatedTags == {gitLog[k].tag : k \in {n \in LogOf("tag -a") : gitLog[n].ok}}

\* the created tags whose deletion was asked of git and done
DeletedTags == {gitLog[k].tag : k \in {n \in LogOf("tag -d") : gitLog[n].ok}}

\* C12 as stated: when a tag creation fails partway through the batch,
\* every tag created earlier in the batch is deleted before the error is
\* returned, and the tags are those that were there before the call.
C12_RollbackRestoresTags ==
    TagAllModulesFailed => CreatedTags = DeletedTags /\ TagsRestored

\* C12: when a tag creation fails partway through the batch and every
\* deletion that rollback asks of git succeeds, every tag created earlier in
\* the batch is deleted before the error is returned, and the tags are those
\* that were there before the call.  When a deletion fails, rollback stops:
\* the tags created before the one that could not be deleted are deleted,
\* that one and the ones created after it remain, and no other tag changes.
C12_RollbackRestoresTagsUnlessDeleteFails ==
    TagAllModulesFailed =>
        /\ err.kind = "GitTag" => CreatedTags = DeletedTags /\ TagsRestored
        /\ err.kind = "GitTagAndDelete" =>
             /\ \E n \in 1..Len(frame.addedFullTags) :
                  /\ frame.addedFullTags[n] = err.delTagsErr.tag
                  /\ DeletedTags = {frame.addedFullTags[k] : k \in 1..(n - 1)}
                  /\ DOMAIN gitTags =
                       TagsAtStart \cup
                       {frame.addedFullTags[k] : k \in n..Len(frame.addedFullTags)}
             /\ ~TagsRestored
        /\ Range(frame.addedFullTags) = CreatedTags
        /\ DeletedTags \subseteq CreatedTags

\* tagAllModules has failed at its third tag and removed the two it had created
C12_Witness ==
    /\ TagAllModulesFailed
    /\ err.kind = "GitTag"
    /\ Cardinality(DeletedTags) = 2
    /\ TagsRestored

\* C13: a deletion that fails during the rollback of tagAllModules is not
\* tried again: git is asked at most once to delete any tag, the failed
\* deletion is the last command run, the call ends with an error, and that
\* error reports the tag whose creation failed and the tag whose deletion
\* failed.
C13_FailedDeleteNotRetried ==
    ~tagCfg.DeleteModuleSetTags =>
        /\ \A a, b \in LogOf("tag -d") : gitLog[a].tag = gitLog[b].tag => a = b
        /\ \A k \in LogOf("tag -d") :
             ~gitLog[k].ok =>
                 /\ k = Len(gitLog)
                 /\ TagAllModulesFailed
                 /\ err.kind = "GitTagAndDelete"
                 /\ err.delTagsErr = DeleteTagError(gitLog[k].tag)
                 /\ \E c \in LogOf("tag -a") :
                      ~gitLog[c].ok /\ gitLog[c].tag = err.tag
        /\ Cardinality({c \in LogOf("tag -a") : ~gitLog[c].ok}) <= 1

\* the first deletion of a rollback of two tags has failed; the second tag
\* was never asked to be deleted
C13_Witness ==
    /\ TagAllModulesFailed
    /\ err.kind = "GitTagAndDelete"
    /\ Len(frame.addedFullTags) = 2
    /\ err.delTagsErr.tag = frame.addedFullTags[1]
    /\ Cardinality(LogOf("tag -d")) = 1

\* C14: when tagAllModules returns success, git has created, on the commit
\* given, one tag for every full tag of the module set, in module order, the
\* tags exist, and no tag was deleted during the call.
C14_SuccessTagsEveryModule ==
    pc = "exit0" /\ ~tagCfg.DeleteModuleSetTags =>
        /\ gitLog = [i \in 1..Len(ExpectedFullTags) |->
                        [cmd |-> "tag -a", tag |-> ExpectedFullTags[i],
                         commit |-> "1a2b3c4d5e6f", ok |-> TRUE]]
        /\ \A i \in 1..Len(ExpectedFullTags) :
             /\ ExpectedFullTags[i] \in DOMAIN gitTags
             /\ gitTags[ExpectedFullTags[i]] = "1a2b3c4d5e6f"
        /\ DOMAIN gitTags = TagsAtStart \cup Range(ExpectedFullTags)

\* the tag command has tagged the three modules of a set and exited 0
C14_Witness ==
    /\ pc = "exit0"
    /\ ~tagCfg.DeleteModuleSetTags
    /\ Len(gitLog) = 3
    /\ Cardinality(DOMAIN gitTags) = 3

\* what holds in delete mode at every moment
DeleteModeState ==
    tagCfg.DeleteModuleSetTags =>
        /\ LogOf("tag -a") = {}
        /\ gitLog # <<>> =>
             /\ Len(gitLog) <= Len(ExpectedFullTags)
             /\ \A k \in DOMAIN gitLog :
                  /\ gitLog[k].cmd = "tag -d"
                  /\ gitLog[k].tag = ExpectedFullTags[k]
                  /\ ~gitLog[k].ok =>
                       /\ k = Len(gitLog)
                       /\ pc = "fatal"
                       /\ fatal = "unable to delete module tags"
                       /\ err = DeleteTagError(ExpectedFullTags[k])
        /\ pc = "exit0" =>
             /\ Len(gitLog) = Len(ExpectedFullTags)
             /\ \A k \in DOMAIN gitLog : gitLog[k].ok
             /\ Range(ExpectedFullTags) \cap DOMAIN gitTags = {}
        /\ pc = "fatal" /\ fatal = "unable to delete module tags" =>
             gitLog # <<>> /\ ~gitLog[Len(gitLog)].ok

\* in delete mode a command line that names a module set passes
\* validateConfig whatever its commit hash, and the commit hash stays as given
DeleteModeStep ==
    pc = "tag.main" /\ tagCfg.DeleteModuleSetTags /\ tagCfg.ModuleSet # "" =>
        pc' = "tag.VersionsAndModulesToUpdate" /\ tagCfg' = tagCfg

\* C15: in delete mode the tag command creates no tag, does not require a
\* commit hash, and asks git to delete the full tags of the module set, in
\* module order and nothing else; it exits 0 only when every one of them was
\* deleted, and it stops with a fatal error at the first deletion that fails.
C15_DeleteModeDeletesInOrder == []DeleteModeState /\ [][DeleteModeStep]_vars

\* the tag command, given no commit hash, has deleted the three tags of a set
C15_Witness ==
    /\ pc = "exit0"
    /\ tagCfg.DeleteModuleSetTags
    /\ tagCfg.CommitHash = ""
    /\ Len(gitLog) = 3
    /\ gitTags = EmptyMap

-----------------------------------------------------------------------------
(* VersionsAndModulesToUpdate (SpecUpdate) *)

\* VersionsAndModulesToUpdate has returned
UpdateReturned == pc = "VersionsAndModulesToUpdate.return"

\* the set the call names is a set of the versioning file
UpdateSetKnown == versionCfg.ok /\ frame.modSetName \in ManifestSets

\* the modules of the set the call names
UpdateModules == versionCfg.ModuleSets[frame.modSetName].Modules

\* the modules BuildModulePathMap finds in the repository
DiscoveredOnDisk == DeclaredOnDisk \ ExcludedInManifest

\* nothing is returned beside the error
NothingReturned ==
    /\ err.kind # "nil"
    /\ frame.newVersion = <<>>
    /\ frame.modPaths = <<>>
    /\ frame.modTagNames = <<>>

\* C16: VersionsAndModulesToUpdate fails, returning no version, no module
\* list and no tag names, whenever a module listed in the requested set has
\* no entry in the map of the modules discovered in the repository.
C16_UndiscoveredModuleFails ==
    /\ UpdateReturned /\ UpdateSetKnown
       /\ (\E i \in DOMAIN UpdateModules : UpdateModules[i] \notin DiscoveredOnDisk)
       => NothingReturned
    /\ UpdateReturned /\ err.kind = "ModuleTagNames" =>
         \E i \in DOMAIN UpdateModules :
             /\ UpdateModules[i] \notin DOMAIN modPathMap
             /\ \A k \in 1..(i - 1) : UpdateModules[k] \in DOMAIN modPathMap

\* the call has failed on a set whose second module has no go.mod file,
\* after a walk of the repository that found the first
C16_Witness ==
    /\ UpdateReturned /\ UpdateSetKnown
    /\ err.kind = "ModuleTagNames"
    /\ Len(UpdateModules) >= 2
    /\ UpdateModules[1] \in DOMAIN modPathMap
    /\ UpdateModules[2] \notin DiscoveredOnDisk

\* C17: VersionsAndModulesToUpdate fails with the unknown-module-set error
\* when the requested name is not a set of the versioning file, and it
\* neither walks the repository (a go.mod file that cannot be read does not
\* fail the call, and no module path map is built) nor derives a tag name.
C17_UnknownSetFailsBeforeWalk ==
    UpdateReturned /\ versionCfg.ok /\ frame.modSetName \notin ManifestSets =>
        /\ err = [kind |-> "UnknownModuleSet", setName |-> frame.modSetName]
        /\ modPathMap = NilMap
        /\ NothingReturned

\* the call has failed on an unknown set in a repository one of whose go.mod
\* files cannot be read and the others declare modules that are not excluded
C17_Witness ==
    /\ UpdateReturned
    /\ versionCfg.ok /\ versionCfg.ModuleSets # EmptyMap
    /\ frame.modSetName = "contrib"
    /\ err.kind = "UnknownModuleSet"
    /\ \E p \in GoModPaths : fsys[p].kind = "unreadable"
    /\ DiscoveredOnDisk # {}

\* C18: when VersionsAndModulesToUpdate succeeds, the version returned is the
\* version of the requested set, the module list is the list of the set in
\* the order of the versioning file, and the list of tag names has the same
\* length, its i-th tag name being the directory of the go.mod file of the
\* i-th module (the tag name of the repository root for a go.mod file there).
C18_SuccessReturnsSetInOrder ==
    UpdateReturned /\ err.kind = "nil" =>
        /\ UpdateSetKnown
        /\ frame.newVersion = versionCfg.ModuleSets[frame.modSetName].Version
        /\ frame.modPaths = UpdateModules
        /\ Len(frame.modTagNames) = Len(UpdateModules)
        /\ \A i \in DOMAIN UpdateModules :
             frame.modTagNames[i] = TagNameOf(UpdateModules[i])

\* the call has succeeded on a set of three modules that the versioning
\* file does not list in the order in which the walk finds them
C18_Witness ==
    /\ UpdateReturned /\ err.kind = "nil"
    /\ frame.modPaths = <<"otel/sdk", "otel/api", "otel/exp">>
    /\ Len(frame.modTagNames) = 3

-----------------------------------------------------------------------------
(* ModuleFilePathToTagName (SpecTagName) *)

TagNameReturned == pc = "ModuleFilePathToTagName.return"

-----------------------------------------------------------------------------
(* CombineModuleTagNamesAndVersion (SpecCombine) *)

CombineReturned == pc = "CombineModuleTagNamesAndVersion.return"

\* the full tags are as many as the tag names, and the i-th is the version
\* for the tag name of the repository root, tag name, "/" and version
\* otherwise
CombinedInOrder ==
    CombineReturned =>
        /\ Len(frame.modFullTags) = Len(frame.modTagNames)
        /\ \A i \in DOMAIN frame.modTagNames :
             /\ frame.modTagNames[i] = repoRootTag =>
                  frame.modFullTags[i] = frame.version
             /\ frame.modTagNames[i] # repoRootTag =>
                  /\ frame.modFullTags[i] =
                       frame.modTagNames[i] \o <<"/">> \o frame.version
                  /\ Len(frame.modFullTags[i]) =
                       Len(frame.modTagNames[i]) + 1 + Len(frame.version)

\* the call leaves its arguments as they were
CombineKeepsInputs ==
    pc = "CombineModuleTagNamesAndVersion" =>
        /\ pc' = "CombineModuleTagNamesAndVersion.return"
        /\ frame'.modTagNames = frame.modTagNames
        /\ frame'.version = frame.version

\* C20: CombineModuleTagNamesAndVersion returns, for every list of tag names
\* and every version, a list of full tags of the same length and in the same
\* order: the i-th full tag is the version alone when the i-th tag name is
\* that of the repository root, and tag name, "/" and version otherwise; the
\* list of tag names and the version are not modified.
C20_CombineTotalInOrder == []CombinedInOrder /\ [][CombineKeepsInputs]_vars

\* the call has returned the full tags of a directory, the repository root
\* and another directory, in this order
C20_Witness ==
    /\ CombineReturned
    /\ Len(frame.modFullTags) = 3
    /\ frame.modTagNames[2] = repoRootTag
    /\ frame.modFullTags[2] = frame.version
    /\ frame.modTagNames[1] # repoRootTag
    /\ frame.modTagNames[3] \notin {repoRootTag, frame.modTagNames[1]}

-----------------------------------------------------------------------------
(* BuildModulePathMap (SpecWalk) *)

WalkReturned == pc = "tools.BuildModulePathMap.return"

\* the go.mod files that exist and cannot be read
CannotBeRead == {p \in GoModPaths : fsys[p].kind \in {"unreadable", "walkerr"}}

\* the go.mod files that can be read and declare module m
ReadableGoModsOf(m) ==
    {p \in GoModPaths : fsys[p].kind = "file" /\ fsys[p].module = m}

\* the position of a go.mod file in the walk
WalkPosition(p) == CHOOSE i \in DOMAIN WalkOrder : WalkOrder[i] = p

\* the go.mod file of module m that the walk reaches last
LastGoModOf(m) ==
    CHOOSE p \in ReadableGoModsOf(m) :
        \A q \in ReadableGoModsOf(m) : WalkPosition(q) <= WalkPosition(p)

\* C23 as stated: during module discovery a file that cannot be read is
\* logged as a warning and skipped without aborting the walk, and
\* BuildModulePathMap returns a map that holds every module that is not
\* excluded and whose go.mod file could be read.
C23_UnreadableFilesSkipped ==
    WalkReturned /\ versionCfg.ok =>
        /\ err = NoError
        /\ DOMAIN modPathMap = DeclaredOnDisk \ ExcludedInManifest
        /\ \A p \in CannotBeRead : \E k \in DOMAIN out : out[k].path = p

\* C24: when go.mod files at two places declare the same module, which is
\* not excluded, BuildModulePathMap does not fail for that and the map it
\* returns holds for the module the place that the walk reaches last.
C24_LastLocationWins ==
    WalkReturned =>
        /\ err = NoError =>
             /\ DOMAIN modPathMap = DeclaredOnDisk \ ExcludedInManifest
             /\ \A m \in DOMAIN modPathMap : modPathMap[m] = LastGoModOf(m)
        /\ err # NoError =>
             \/ ~versionCfg.ok
             \/ \E p \in GoModPaths : fsys[p].kind = "unreadable"

\* a module declared at three places is in the returned map with the last
C24_Witness ==
    /\ WalkReturned /\ err = NoError
    /\ \E m \in DOMAIN modPathMap :
         /\ Cardinality(ReadableGoModsOf(m)) = 3
         /\ modPathMap[m] = "/repo/sdk/go.mod"

-----------------------------------------------------------------------------
(* The tag command: the commit and the rollback (SpecTag) *)

\* the commits git knows by the hashes of the command lines
CommitOfHash(hash) ==
    CASE hash = "1a2b3c" -> "1a2b3c4d5e6f"
      [] hash = "7f8e9d" -> "7f8e9d0c1b2a"
      [] hash = "c0ffee" -> "c0ffee112233"

HashesOfCommits == {"1a2b3c", "7f8e9d", "c0ffee"}

\* the commits from which HEAD descends, HEAD included
AncestorsOfHead == {"1a2b3c4d5e6f"}

\* the commit of the tags the repository had before the command
EarlierCommit == "0a1b2c3d4e5f"

\* in create mode every tag is on the commit of the config, which is an
\* ancestor of HEAD, and no tag is created before validateConfig has passed
CreateModeState ==
    LogOf("tag -a") # {} =>
        /\ ~tagCfg.DeleteModuleSetTags
        /\ pc \notin {"tag.main", "exit-1"}
        /\ tagCfg.CommitHash \in AncestorsOfHead
        /\ \A k \in LogOf("tag -a") :
             /\ gitLog[k].commit = tagCfg.CommitHash
             /\ gitLog[k].ok /\ gitLog[k].tag \in DOMAIN gitTags =>
                  gitTags[gitLog[k].tag] = tagCfg.CommitHash

\* in create mode validateConfig passes only a commit hash that is not
\* empty, that git resolves and whose commit is an ancestor of HEAD, and it
\* puts the full identifier of the commit in the config
CreateModeStep ==
    pc = "tag.main" /\ ~tagCfg.DeleteModuleSetTags =>
        \/ pc' = "exit-1" /\ gitLog' = gitLog /\ gitTags' = gitTags
        \/ /\ pc' = "tag.VersionsAndModulesToUpdate"
           /\ tagCfg.CommitHash # ""
           /\ tagCfg.CommitHash \in HashesOfCommits
           /\ CommitOfHash(tagCfg.CommitHash) \in AncestorsOfHead
           /\ tagCfg'.CommitHash = CommitOfHash(tagCfg.CommitHash)
           /\ gitLog' = gitLog

\* once validateConfig has passed the config is not changed
ConfigKeptStep == pc # "tag.main" => tagCfg' = tagCfg

\* C26: in create mode the tag command creates no tag unless the commit hash
\* it is given is not empty, resolves to a commit, and that commit is an
\* ancestor of HEAD or HEAD itself; the tags are created on the full
\* identifier of that commit.
C26_TagsOnlyOnAncestorOfHead ==
    []CreateModeState /\ [][CreateModeStep /\ ConfigKeptStep]_vars

\* tags have been created for a short hash, on the full identifier
C26_Witness ==
    /\ pc = "exit0"
    /\ ~tagCfg.DeleteModuleSetTags
    /\ Cardinality(LogOf("tag -a")) = 2
    /\ \A k \in LogOf("tag -a") : gitLog[k].ok /\ gitLog[k].commit = "1a2b3c4d5e6f"

\* C27: the rollback of tagAllModules deletes only tags that the same call
\* has created: git is asked to delete a tag only after it has created that
\* tag in the same call, and a tag the repository had before the call, the
\* tag whose creation failed because it existed included, is never deleted
\* by the call and stays on its commit.
C27_RollbackDeletesOnlyOwnTags ==
    ~tagCfg.DeleteModuleSetTags =>
        /\ \A d \in LogOf("tag -d") :
             \E a \in LogOf("tag -a") :
                 /\ a < d
                 /\ gitLog[a].ok
                 /\ gitLog[a].tag = gitLog[d].tag
                 /\ gitLog[a].commit # EarlierCommit
        /\ \A t \in TagsAtStart : t \in DOMAIN gitTags /\ gitTags[t] = EarlierCommit
        /\ \A k \in LogOf("tag -a") :
             gitLog[k].tag \in TagsAtStart => ~gitLog[k].ok

\* the creation of a tag that the repository had has failed, the tag
\* created before it is deleted again and the tag is still there
C27_Witness ==
    /\ TagAllModulesFailed
    /\ err.kind = "GitTag"
    /\ err.tag \in TagsAtStart
    /\ err.tag \in DOMAIN gitTags
    /\ gitTags[err.tag] = EarlierCommit
    /\ Cardinality(DeletedTags) = 1

-----------------------------------------------------------------------------
(* The full tags of the two commands (SpecFullTags, SpecFullTag) *)

BothDerived == pc = "fullTags.both"

\* the set is a set of the versioning file, every go.mod file can be read,
\* and every module of the set has its go.mod file and is not excluded
SetDiscovered ==
    /\ versionCfg.ok
    /\ tagCfg.ModuleSet \in ManifestSets
    /\ \A p \in GoModPaths : fsys[p].kind # "unreadable"
    /\ Range(RequestedModules) \subseteq DiscoveredOnDisk

\* C28: for the same versioning file, module set and repository the full
\* tags whose existence the prerelease command checks are the full tags the
\* tag command creates, in the same order, the bare version for the module
\* at the root of the repository included; when one command cannot derive its
\* tags the other cannot either.
C28_CheckedTagsAreCreatedTags ==
    BothDerived =>
        /\ frame.checked = frame.created
        /\ SetDiscovered =>
             /\ frame.checked[1].err = NoError
             /\ frame.checked[1].modFullTags = ExpectedFullTags
             /\ frame.created[1].modFullTags = ExpectedFullTags
        /\ ~SetDiscovered => frame.checked[1].err # NoError

\* both commands have derived the tags of a set with a module in a
\* directory and the module at the root
C28_Witness ==
    /\ BothDerived
    /\ SetDiscovered
    /\ RequestedModules = <<"otel/api", RootModule>>
    /\ frame.created[1].modFullTags =
         <<<<"a", "p", "i", "/", "v", "1", ".", "2", ".", "0">>,
           <<"v", "1", ".", "2", ".", "0">>>>

FullTagDerived == pc = "fullTag.return"

\* C29 as stated: only the module whose go.mod file is at the root of the
\* repository gets the bare version as its full tag; for a module whose
\* go.mod file is in a directory <dir> below the root the tag name is not
\* that of the root and the full tag is <dir>/<version>.
C29_OnlyRootGetsBareVersion ==
    FullTagDerived =>
        \A dir \in RelativeDirs \ {<<>>} :
            frame.modFilePath = GoModIn(frame.repoRoot, dir) =>
                /\ err = NoError
                /\ frame.modTagName # repoRootTag
                /\ frame.modFullTags = <<dir \o <<"/">> \o frame.version>>
                /\ frame.modFullTags # <<frame.version>>

-----------------------------------------------------------------------------
(* updateAllGoModFiles and updateGoModVersions (SpecRewrite,               *)
(* SpecRewriteTwice)                                                       *)

\* the paths of the modules whose versions are rewritten, as written
RewrittenPaths == {ModulePathBytes(frame.newModPaths[i]) : i \in DOMAIN frame.newModPaths}

\* the require directives with the new version put in for these modules
WithNewVersion(entries) ==
    [i \in DOMAIN entries |->
        IF entries[i].path \in RewrittenPaths
        THEN [path |-> entries[i].path, version |-> frame.newVersion]
        ELSE entries[i]]

\* C25 as stated, for the files that can be written: after
\* updateAllGoModFiles, in every go.mod file of modPathMap every require
\* directive on a module of newModPaths carries exactly newVersion, whatever
\* version it carried, and every other require directive is as it was.
C25_RequiredVersionsRewritten ==
    pc = "updateAllGoModFiles.return" =>
        \A m \in DOMAIN modPathMap :
            fsys[modPathMap[m]].writable =>
                fsys[modPathMap[m]].text =
                    GoModText(m, WithNewVersion(frame.given[modPathMap[m]]))

\* C30 as stated: updateGoModVersions applied twice with the same newVersion
\* and newModPaths leaves the file as one application does.
C30_RewriteIdempotent ==
    pc = "updateGoModVersions.twice" =>
        fsys[frame.modFilePath].text = frame.once

-----------------------------------------------------------------------------
(* The prerelease command (SpecPrerelease) *)

\* the commands of the prerelease command, in the order of its steps
PrereleaseOrder ==
    <<"tag -l", "diff --exit-code", "checkout -b", "make lint", "add .",
      "make ci", "commit -m">>

StageOf(cmd) == CHOOSE i \in DOMAIN PrereleaseOrder : PrereleaseOrder[i] = cmd

\* the command has been run, with whatever outcome
Ran(cmd) == LogOf(cmd) # {}

\* the step runs the command
Runs(cmd) ==
    /\ Len(gitLog') = Len(gitLog) + 1
    /\ gitLog'[Len(gitLog')].cmd = cmd

\* every full tag of the set has been looked for, in module order, and git
\* has answered that it has none of them
TagCheckPassed ==
    /\ gitLog = [k \in 1..Len(ExpectedFullTags) |->
                    Command("tag -l", ExpectedFullTags[k], "", TRUE)]
    /\ Range(ExpectedFullTags) \cap DOMAIN gitTags = {}

\* both checks have passed and nothing else has been run
ChecksPassed ==
    /\ Len(gitLog) > 0
    /\ gitLog[Len(gitLog)] = Command("diff --exit-code", <<>>, "", TRUE)
    /\ LogOf("tag -l") = 1..(Len(gitLog) - 1)
    /\ \A k \in LogOf("tag -l") : gitLog[k].ok /\ gitLog[k].tag \notin DOMAIN gitTags

\* what holds of the commands run so far at every moment
PrereleaseRunState ==
    /\ \A k \in 1..(Len(gitLog) - 1) :
         /\ gitLog[k].ok
         /\ StageOf(gitLog[k].cmd) <= StageOf(gitLog[k + 1].cmd)
         /\ StageOf(gitLog[k].cmd) = StageOf(gitLog[k + 1].cmd) =>
                gitLog[k].cmd = "tag -l"
    /\ Ran("checkout -b") => Ran("diff --exit-code")
    /\ Ran("add .") => Ran("checkout -b") /\ (Ran("make lint") <=> ~tagCfg.SkipMake)
    /\ Ran("make lint") => Ran("checkout -b")
    /\ Ran("make ci") => Ran("add .") /\ ~tagCfg.SkipMake
    /\ Ran("commit -m") => Ran("add .") /\ (Ran("make ci") <=> ~tagCfg.SkipMake)
    /\ pc = "exit0" => Ran("commit -m") /\ gitLog[Len(gitLog)].ok

\* what holds of every step
PrereleaseRunStep ==
    /\ Runs("diff --exit-code") => TagCheckPassed
    /\ Runs("checkout -b") => ChecksPassed
    /\ fsys' # fsys =>
         /\ gitLog' = gitLog
         /\ gitLog[Len(gitLog)].cmd = "checkout -b"
         /\ gitLog[Len(gitLog)].ok
    /\ \A cmd \in {"make lint", "add .", "make ci", "commit -m"} :
         Runs(cmd) => visited = DOMAIN modPathMap /\ fsys' = fsys

\* C21: the prerelease command derives the version and the tags, looks for
\* every full tag of the set, checks that the working tree is clean, creates
\* the branch, rewrites the go.mod files, runs make lint unless told to skip
\* it, and commits, in this order; it creates no branch, rewrites no go.mod
\* file and makes no commit unless git had none of the full tags and the
\* working tree was clean.
C21_StepsInOrderAfterChecks == []PrereleaseRunState /\ [][PrereleaseRunStep]_vars

\* the prerelease command has looked for two full tags, run every step with
\* the make steps, rewritten the go.mod file of otel/sdk and committed
C21_Witness ==
    /\ pc = "exit0"
    /\ ~tagCfg.SkipMake
    /\ Len(gitLog) = 8
    /\ fsys["/repo/sdk/go.mod"].kind = "file"
    /\ fsys["/repo/sdk/go.mod"].text # frame.head["/repo/sdk/go.mod"].text

\* the commit step of Run and its successful end
CommitSteps == {"commitChanges", "commitChanges.ci", "commitChanges.commit", "exit0"}

\* the discovery of the go.mod files to rewrite has failed
DiscoveryFailed == BuildModulePathMap(versionCfg, fsys).err.kind # "nil"

\* a go.mod file that was to be rewritten could not be written back
WriteFailed == \E m \in DOMAIN modPathMap : ~fsys[modPathMap[m]].writable

\* C22 as stated: the prerelease command reaches the commit step, and exits
\* 0, only if every earlier step succeeded, the discovery of the go.mod
\* files to rewrite and the writing back of each rewritten file included.
C22_CommitOnlyAfterEveryStepSucceeded ==
    pc \in CommitSteps =>
        /\ ~DiscoveryFailed
        /\ ~WriteFailed
        /\ \A k \in 1..(Len(gitLog) - 1) : gitLog[k].ok

====
